---- MODULE Spec2Model ----
(***************************************************************************)
(* Model of the zoneparser package of zone-tools: the line scanner of      *)
(* Parser.parseFile, the directive handler, the record classifier and the  *)
(* per-type field parsers, over a lazily determined file system.           *)
(*                                                                         *)
(* Text is modelled as TLA+ strings handled character by character (Len,   *)
(* SubSeq, \o), so tokenising, comment stripping, number and address       *)
(* parsing and name qualification are computed the way the Go code         *)
(* computes them.  An unsigned number is represented by its canonical      *)
(* decimal numeral (no leading zeros), which is exact for every width.     *)
(***************************************************************************)
EXTENDS Integers, Sequences, FiniteSets, TLC

(***************************************************************************)
(* Package strings / strconv                                               *)
(***************************************************************************)

\* s[i] of the Go code, as a one-character string (1-based)
Ch(s, i) == SubSeq(s, i, i)

\* unicode.IsSpace on the characters a zone line can hold
IsSpace(c) == c \in {" ", "\t", "\r"}

IsDigit(c) == c \in {"0", "1", "2", "3", "4", "5", "6", "7", "8", "9"}

HasPrefix(s, p) == Len(s) >= Len(p) /\ SubSeq(s, 1, Len(p)) = p

HasSuffix(s, p) == Len(s) >= Len(p) /\ SubSeq(s, Len(s) - Len(p) + 1, Len(s)) = p

\* strings.Contains(s, c) for a one-character c
Contains(s, c) == \E i \in 1..Len(s) : Ch(s, i) = c

\* strings.Count(s, c) for a one-character c
Count(s, c) == Cardinality({i \in 1..Len(s) : Ch(s, i) = c})

RECURSIVE SkipSpaceRight(_, _)
SkipSpaceRight(s, i) ==
    IF i <= Len(s) /\ IsSpace(Ch(s, i)) THEN SkipSpaceRight(s, i + 1) ELSE i

RECURSIVE SkipSpaceLeft(_, _)
SkipSpaceLeft(s, j) ==
    IF j >= 1 /\ IsSpace(Ch(s, j)) THEN SkipSpaceLeft(s, j - 1) ELSE j

\* strings.TrimSpace
TrimSpace(s) == SubSeq(s, SkipSpaceRight(s, 1), SkipSpaceLeft(s, Len(s)))

RECURSIVE TrimLeftSet(_, _)
TrimLeftSet(s, cut) ==
    IF s # "" /\ Ch(s, 1) \in cut THEN TrimLeftSet(Tail(s), cut) ELSE s

RECURSIVE TrimRightSet(_, _)
TrimRightSet(s, cut) ==
    IF s # "" /\ Ch(s, Len(s)) \in cut
    THEN TrimRightSet(SubSeq(s, 1, Len(s) - 1), cut) ELSE s

\* strings.Trim(s, cutset), the cutset given as a set of characters
Trim(s, cut) == TrimRightSet(TrimLeftSet(s, cut), cut)

RECURSIVE FieldsFrom(_, _, _, _)
FieldsFrom(s, i, cur, acc) ==
    IF i > Len(s)
    THEN IF cur = "" THEN acc ELSE Append(acc, cur)
    ELSE IF IsSpace(Ch(s, i))
         THEN FieldsFrom(s, i + 1, "", IF cur = "" THEN acc ELSE Append(acc, cur))
         ELSE FieldsFrom(s, i + 1, cur \o Ch(s, i), acc)

\* strings.Fields: the maximal runs of non-space characters
Fields(s) == FieldsFrom(s, 1, "", <<>>)

RECURSIVE JoinFrom(_, _, _)
JoinFrom(parts, i, sep) ==
    IF i > Len(parts) THEN ""
    ELSE IF i = Len(parts) THEN parts[i]
    ELSE parts[i] \o sep \o JoinFrom(parts, i + 1, sep)

\* strings.Join
Join(parts, sep) == JoinFrom(parts, 1, sep)

RECURSIVE StripZeros(_)
StripZeros(s) ==
    IF Len(s) > 1 /\ Ch(s, 1) = "0" THEN StripZeros(Tail(s)) ELSE s

DigitVal(c) ==
    CASE c = "0" -> 0 [] c = "1" -> 1 [] c = "2" -> 2 [] c = "3" -> 3
      [] c = "4" -> 4 [] c = "5" -> 5 [] c = "6" -> 6 [] c = "7" -> 7
      [] c = "8" -> 8 [] c = "9" -> 9

RECURSIVE NumeralLess(_, _, _)
\* a < b for two decimal numerals of the same length, compared from digit i
NumeralLess(a, b, i) ==
    IF i > Len(a) THEN FALSE
    ELSE IF DigitVal(Ch(a, i)) < DigitVal(Ch(b, i)) THEN TRUE
    ELSE IF DigitVal(Ch(a, i)) > DigitVal(Ch(b, i)) THEN FALSE
    ELSE NumeralLess(a, b, i + 1)

\* a <= b for canonical decimal numerals
NumeralLeq(a, b) ==
    \/ Len(a) < Len(b)
    \/ Len(a) = Len(b) /\ (a = b \/ NumeralLess(a, b, 1))

\* the largest value of an unsigned integer of the given bit size
MaxUint(bits) ==
    CASE bits = 8 -> "255" [] bits = 16 -> "65535" [] bits = 32 -> "4294967295"

\* strconv.ParseUint(s, 10, bits): ok and the value as a canonical numeral
ParseUint(s, bits) ==
    IF s = "" \/ \E i \in 1..Len(s) : ~IsDigit(Ch(s, i))
    THEN [ok |-> FALSE, val |-> "0"]
    ELSE IF NumeralLeq(StripZeros(s), MaxUint(bits))
         THEN [ok |-> TRUE, val |-> StripZeros(s)]
         ELSE [ok |-> FALSE, val |-> MaxUint(bits)]

RECURSIVE SplitFrom(_, _, _, _, _)
SplitFrom(s, sep, i, cur, acc) ==
    IF i > Len(s) THEN Append(acc, cur)
    ELSE IF Ch(s, i) = sep THEN SplitFrom(s, sep, i + 1, "", Append(acc, cur))
    ELSE SplitFrom(s, sep, i + 1, cur \o Ch(s, i), acc)

\* strings.Split(s, sep) for a one-character sep
Split(s, sep) == SplitFrom(s, sep, 1, "", <<>>)

\* strings.ToLower on the letters the inaddr marker and hex digits use
LowerCh(c) ==
    CASE c = "A" -> "a" [] c = "B" -> "b" [] c = "C" -> "c" [] c = "D" -> "d"
      [] c = "E" -> "e" [] c = "F" -> "f" [] c = "I" -> "i" [] c = "N" -> "n"
      [] c = "R" -> "r" [] OTHER -> c

RECURSIVE ToLower(_)
ToLower(s) == IF s = "" THEN "" ELSE LowerCh(Ch(s, 1)) \o ToLower(Tail(s))

(***************************************************************************)
(* Package net: ParseIP and To4                                            *)
(***************************************************************************)

\* one field of a dotted quad: decimal, at most 255, no leading zero
IsOctet(f) ==
    /\ ParseUint(f, 8).ok
    /\ Len(f) = 1 \/ Ch(f, 1) # "0"

IsIPv4Text(s) ==
    LET f == Split(s, ".")
    IN  Len(f) = 4 /\ \A i \in 1..4 : IsOctet(f[i])

IsHexDigit(c) == IsDigit(c) \/ LowerCh(c) \in {"a", "b", "c", "d", "e", "f"}

\* one 16-bit group of an IPv6 address: one to four hex digits
IsHexGroup(g) ==
    Len(g) \in 1..4 /\ \A i \in 1..Len(g) : IsHexDigit(Ch(g, i))

RECURSIVE IndexOfPair(_, _, _)
\* the first index at which the two-character string pair occurs in s, or 0
IndexOfPair(s, pair, i) ==
    IF i + 1 > Len(s) THEN 0
    ELSE IF SubSeq(s, i, i + 1) = pair THEN i
    ELSE IndexOfPair(s, pair, i + 1)

GroupsOf(s) == IF s = "" THEN <<>> ELSE Split(s, ":")

Zeros(n) == [i \in 1..n |-> "0"]

CanonGroups(gs) == [i \in 1..Len(gs) |-> StripZeros(ToLower(gs[i]))]

\* an IPv6 literal without "::": eight hex groups
IPv6Whole(whole) ==
    IF Len(whole) = 8 /\ \A i \in 1..8 : IsHexGroup(whole[i])
    THEN [ok |-> TRUE, groups |-> CanonGroups(whole)]
    ELSE [ok |-> FALSE, groups |-> <<>>]

\* an IPv6 literal with "::" between the groups left and right
IPv6Around(left, right) ==
    IF /\ Len(left) + Len(right) < 8
       /\ \A i \in 1..Len(left) : IsHexGroup(left[i])
       /\ \A i \in 1..Len(right) : IsHexGroup(right[i])
    THEN [ok |-> TRUE,
          groups |-> CanonGroups(left) \o Zeros(8 - Len(left) - Len(right))
                       \o CanonGroups(right)]
    ELSE [ok |-> FALSE, groups |-> <<>>]

IPv6At(s, k) ==
    IF k = 0 THEN IPv6Whole(Split(s, ":"))
    ELSE IPv6Around(GroupsOf(SubSeq(s, 1, k - 1)), GroupsOf(SubSeq(s, k + 2, Len(s))))

\* the eight groups of an IPv6 literal (hex groups, at most one "::"); the
\* embedded dotted-quad tail that net.ParseIP also accepts is not modelled
ParseIPv6(s) == IPv6At(s, IndexOfPair(s, "::", 1))

IPOfV6(p) == IF p.ok THEN [v |-> 6, addr |-> p.groups] ELSE [v |-> 0, addr |-> <<>>]

\* net.ParseIP: the address in canonical text form, v = 0 when s is no address
ParseIP(s) == IF IsIPv4Text(s) THEN [v |-> 4, addr |-> <<s>>] ELSE IPOfV6(ParseIPv6(s))

\* ip.To4() != nil: a dotted quad, or an IPv4-mapped address ::ffff:a.b.c.d
To4NonNil(ip) ==
    \/ ip.v = 4
    \/ ip.v = 6 /\ SubSeq(ip.addr, 1, 5) = Zeros(5) /\ ip.addr[6] = "ffff"

(***************************************************************************)
(* zoneparser/utils.go                                                     *)
(***************************************************************************)

MinRecordTokens == 3

InAddrComment == "inaddr"

InAddrAltComment == "in-addr"

ClassIN == "IN"

knownRRTypes ==
    {"A", "AAAA", "CNAME", "MX", "TXT", "NS", "SOA", "PTR", "SRV", "CAA",
     "HINFO", "NAPTR", "SPF"}

RECURSIVE CollapseFrom(_, _, _)
CollapseFrom(s, i, acc) ==
    IF i > Len(s) THEN acc
    ELSE IF IsSpace(Ch(s, i))
         THEN CollapseFrom(s, SkipSpaceRight(s, i), acc \o " ")
         ELSE CollapseFrom(s, i + 1, acc \o Ch(s, i))

\* regexp.MustCompile(`\s+`).ReplaceAllString(s, " ")
CollapseSpaces(s) == CollapseFrom(s, 1, "")

RECURSIVE TokenizeFrom(_, _, _, _, _)
TokenizeFrom(s, i, inQuotes, cur, acc) ==
    IF i > Len(s)
    THEN IF Len(cur) > 0 THEN Append(acc, cur) ELSE acc
    ELSE IF Ch(s, i) = "\""
         THEN TokenizeFrom(s, i + 1, ~inQuotes, cur \o Ch(s, i), acc)
         ELSE IF Ch(s, i) = " " /\ ~inQuotes
              THEN TokenizeFrom(s, i + 1, inQuotes, "",
                                IF Len(cur) > 0 THEN Append(acc, cur) ELSE acc)
              ELSE TokenizeFrom(s, i + 1, inQuotes, cur \o Ch(s, i), acc)

tokenizeWithQuotes(s) == TokenizeFrom(CollapseSpaces(s), 1, FALSE, "", <<>>)

extractTXTContent(data) ==
    IF Len(data) = 0 THEN ""
    ELSE LET content == Join(data, " ")
         IN  IF /\ HasPrefix(content, "\"")
                /\ HasSuffix(content, "\"")
                /\ Len(content) >= 2
                /\ Count(content, "\"") = 2
             THEN SubSeq(content, 2, Len(content) - 1)
             ELSE content

\* a qualification that appends the origin to absolute names as well
qualifyDomainName_AppendAlways(name, origin) ==
    IF name = "@" THEN origin ELSE name \o "." \o origin

qualifyDomainName(name, origin) ==
    IF name = "@" THEN origin
    ELSE IF ~HasSuffix(name, ".") THEN name \o "." \o origin
    ELSE name

isNumeric(s) == ParseUint(s, 32).ok

isKnownRRType(s) == s \in knownRRTypes

RECURSIVE UnquotedParenFrom(_, _, _)
UnquotedParenFrom(line, i, inQuotes) ==
    IF i > Len(line) THEN FALSE
    ELSE IF Ch(line, i) = "\"" THEN UnquotedParenFrom(line, i + 1, ~inQuotes)
    ELSE IF ~inQuotes /\ Ch(line, i) \in {"(", ")"} THEN TRUE
    ELSE UnquotedParenFrom(line, i + 1, inQuotes)

containsUnquotedParenthesis(line) == UnquotedParenFrom(line, 1, FALSE)

RECURSIVE CommentStartFrom(_, _, _)
CommentStartFrom(line, i, inQuotes) ==
    IF i > Len(line) THEN 0
    ELSE IF Ch(line, i) = "\"" THEN CommentStartFrom(line, i + 1, ~inQuotes)
    ELSE IF ~inQuotes /\ Ch(line, i) = ";" THEN i
    ELSE CommentStartFrom(line, i + 1, inQuotes)

\* a search that takes the first ';' wherever it is
findCommentStart_AnySemicolon(line) ==
    IF ~Contains(line, ";") THEN 0
    ELSE CHOOSE i \in 1..Len(line) :
             Ch(line, i) = ";" /\ \A j \in 1..(i - 1) : Ch(line, j) # ";"

\* the 1-based index of the first ';' outside quotes, 0 for Go's -1
findCommentStart(line) == CommentStartFrom(line, 1, FALSE)

parseLineWithComments(line) ==
    LET commentStart == findCommentStart(line)
    IN  IF commentStart = 0
        THEN [cleanLine |-> line, comment |-> ""]
        ELSE [cleanLine |-> TrimSpace(SubSeq(line, 1, commentStart - 1)),
              comment |-> TrimSpace(SubSeq(line, commentStart + 1, Len(line)))]

tokenize(line) ==
    IF Contains(line, "\"") THEN tokenizeWithQuotes(line) ELSE Fields(line)

(***************************************************************************)
(* Errors.  A Go error is <<>> for nil and <<message>> otherwise; the      *)
(* message is the text that fmt.Errorf builds.                             *)
(***************************************************************************)

NoError == <<>>

\* fmt.Errorf(text)
Errorf(text) == <<text>>

\* fmt.Errorf(prefix + "%v", err)
Wrap(prefix, err) == <<prefix \o err[1]>>

\* the error of a failed strconv.ParseUint(s, 10, bits)
NumError(s, bits) ==
    "strconv.ParseUint: parsing \"" \o s \o "\": " \o
        (IF s = "" \/ \E i \in 1..Len(s) : ~IsDigit(Ch(s, i))
         THEN "invalid syntax" ELSE "value out of range")

DigitCh(d) == Ch("0123456789", d + 1)

RECURSIVE Itoa(_)
\* strconv.Itoa / the %d verb, for n >= 0
Itoa(n) == IF n < 10 THEN DigitCh(n) ELSE Itoa(n \div 10) \o DigitCh(n % 10)

(***************************************************************************)
(* zoneparser/records.go                                                   *)
(***************************************************************************)

\* DNSRecords{}: one empty slice per record type
EmptyDNSRecords == [t \in knownRRTypes |-> <<>>]

RecFail(msg, records) == [err |-> Errorf(msg), records |-> records]

\* a faulty append that stores the typed record twice
RecAdd_Twice(records, rrType, rec) ==
    [err |-> NoError, records |-> [records EXCEPT ![rrType] = Append(Append(@, rec), rec)]]

\* records.T = append(records.T, rec)
RecAdd(records, rrType, rec) ==
    [err |-> NoError, records |-> [records EXCEPT ![rrType] = Append(@, rec)]]

\* a faulty flag that any comment sets
IsInaddr_AnyComment(comment, commentLower) == comment # ""

\* the inaddr flag of an A record
IsInaddr(comment, commentLower) ==
    /\ comment # ""
    /\ commentLower = InAddrComment \/ commentLower = InAddrAltComment

ARecordOf(data, comment, rr, ip) ==
    IF ip.v = 0
    THEN [err |-> Errorf("invalid A record address: " \o data[1]), record |-> <<>>]
    ELSE IF ~To4NonNil(ip)
    THEN [err |-> Errorf("A record must be IPv4 address: " \o data[1]), record |-> <<>>]
    ELSE [err |-> NoError,
          record |-> [TTL |-> rr.TTL, Class |-> rr.Class, Address |-> ip,
                      Inaddr |-> IsInaddr(comment, ToLower(comment))]]

parseARecord(data, comment, rr) ==
    IF Len(data) < 1
    THEN [err |-> Errorf("A record missing address"), record |-> <<>>]
    ELSE ARecordOf(data, comment, rr, ParseIP(data[1]))

parseTXTRecord(data, comment, rr) ==
    IF Len(data) < 1
    THEN [err |-> Errorf("TXT record missing text"), record |-> <<>>]
    ELSE [err |-> NoError,
          record |-> [TTL |-> rr.TTL, Class |-> rr.Class,
                      Text |-> extractTXTContent(data)]]

\* the A and TXT cases: append the record the helper parsed
AddParsed(records, rrType, r) ==
    IF r.err # NoError THEN [err |-> r.err, records |-> records]
    ELSE RecAdd(records, rrType, r.record)

AAAAOf(data, records, rr, ip) ==
    IF ip.v = 0 THEN RecFail("invalid AAAA record address: " \o data[1], records)
    ELSE IF To4NonNil(ip)
    THEN RecFail("AAAA record must be IPv6 address: " \o data[1], records)
    ELSE RecAdd(records, "AAAA", [TTL |-> rr.TTL, Class |-> rr.Class, Address |-> ip])

\* the data of an MX record after the single-token fallback split; <<>> when
\* the record has no priority and mail server
MXData(data) ==
    IF Len(data) >= 2 THEN data
    ELSE IF Len(data) = 1 /\ Contains(data[1], " ") /\ Len(Fields(data[1])) >= 2
    THEN Fields(data[1])
    ELSE <<>>

MXOf(origin, d, records, rr) ==
    IF d = <<>> THEN RecFail("MX record requires priority and mail server", records)
    ELSE IF ~ParseUint(d[1], 16).ok
    THEN RecFail("invalid MX priority: " \o NumError(d[1], 16), records)
    ELSE RecAdd(records, "MX",
                [TTL |-> rr.TTL, Class |-> rr.Class,
                 Priority |-> ParseUint(d[1], 16).val,
                 Mail |-> qualifyDomainName(d[2], origin)])

RECURSIVE SOACleanFrom(_, _, _)
SOACleanFrom(data, i, acc) ==
    IF i > Len(data) THEN acc
    ELSE SOACleanFrom(data, i + 1,
                      IF Trim(data[i], {"(", ")"}) # ""
                      THEN Append(acc, Trim(data[i], {"(", ")"})) ELSE acc)

\* the SOA data with parentheses trimmed and empty fields dropped
SOAData(data) == SOACleanFrom(data, 1, <<>>)

\* the first index in idx whose field is no unsigned number of the size, or 0
FirstBadUint(data, idx, bits) ==
    IF \A k \in 1..Len(idx) : ParseUint(data[idx[k]], bits).ok THEN 0
    ELSE idx[CHOOSE k \in 1..Len(idx) :
                /\ ~ParseUint(data[idx[k]], bits).ok
                /\ \A m \in 1..(k - 1) : ParseUint(data[idx[m]], bits).ok]

\* the uint32 fields of an SOA record, by index
SOAFieldName == <<"", "", "serial", "refresh", "retry", "expire", "minimum TTL">>

SOAChecked(origin, d, records, rr, bad) ==
    IF bad # 0
    THEN RecFail("invalid SOA " \o SOAFieldName[bad] \o ": " \o NumError(d[bad], 32),
                 records)
    ELSE RecAdd(records, "SOA",
                [TTL |-> rr.TTL, Class |-> rr.Class,
                 PrimaryNS |-> qualifyDomainName(d[1], origin),
                 Email |-> qualifyDomainName(d[2], origin),
                 Serial |-> ParseUint(d[3], 32).val,
                 Refresh |-> ParseUint(d[4], 32).val,
                 Retry |-> ParseUint(d[5], 32).val,
                 Expire |-> ParseUint(d[6], 32).val,
                 MinimumTTL |-> ParseUint(d[7], 32).val])

SOAOf(origin, d, records, rr) ==
    IF Len(d) < 7 THEN RecFail("SOA record requires 7 fields", records)
    ELSE SOAChecked(origin, d, records, rr, FirstBadUint(d, <<3, 4, 5, 6, 7>>, 32))

SRVFieldName == <<"priority", "weight", "port">>

SRVChecked(origin, data, records, rr, bad) ==
    IF bad # 0
    THEN RecFail("invalid SRV " \o SRVFieldName[bad] \o ": " \o NumError(data[bad], 16),
                 records)
    ELSE RecAdd(records, "SRV",
                [TTL |-> rr.TTL, Class |-> rr.Class,
                 Priority |-> ParseUint(data[1], 16).val,
                 Weight |-> ParseUint(data[2], 16).val,
                 Port |-> ParseUint(data[3], 16).val,
                 Target |-> qualifyDomainName(data[4], origin)])

NAPTRFieldName == <<"order", "preference">>

NAPTRChecked(origin, data, records, rr, bad) ==
    IF bad # 0
    THEN RecFail("invalid NAPTR " \o NAPTRFieldName[bad] \o ": "
                   \o NumError(data[bad], 16), records)
    ELSE RecAdd(records, "NAPTR",
                [TTL |-> rr.TTL, Class |-> rr.Class,
                 Order |-> ParseUint(data[1], 16).val,
                 Preference |-> ParseUint(data[2], 16).val,
                 Flags |-> Trim(data[3], {"\""}),
                 Service |-> Trim(data[4], {"\""}),
                 Regexp |-> Trim(data[5], {"\""}),
                 Replacement |-> qualifyDomainName(data[6], origin)])

parseSpecificRecord(origin, rrType, data, comment, records, rr) ==
    CASE rrType = "A" -> AddParsed(records, "A", parseARecord(data, comment, rr))
      [] rrType = "AAAA" ->
           IF Len(data) < 1 THEN RecFail("AAAA record missing address", records)
           ELSE AAAAOf(data, records, rr, ParseIP(data[1]))
      [] rrType = "CNAME" ->
           IF Len(data) < 1 THEN RecFail("CNAME record missing target", records)
           ELSE RecAdd(records, "CNAME",
                       [TTL |-> rr.TTL, Class |-> rr.Class,
                        Target |-> qualifyDomainName(data[1], origin)])
      [] rrType = "MX" -> MXOf(origin, MXData(data), records, rr)
      [] rrType = "TXT" -> AddParsed(records, "TXT", parseTXTRecord(data, comment, rr))
      [] rrType = "NS" ->
           IF Len(data) < 1 THEN RecFail("NS record missing name server", records)
           ELSE RecAdd(records, "NS",
                       [TTL |-> rr.TTL, Class |-> rr.Class,
                        NameServer |-> qualifyDomainName(data[1], origin)])
      [] rrType = "SOA" -> SOAOf(origin, SOAData(data), records, rr)
      [] rrType = "PTR" ->
           IF Len(data) < 1 THEN RecFail("PTR record missing pointer", records)
           ELSE RecAdd(records, "PTR",
                       [TTL |-> rr.TTL, Class |-> rr.Class,
                        Pointer |-> qualifyDomainName(data[1], origin)])
      [] rrType = "SRV" ->
           IF Len(data) < 4 THEN RecFail("SRV record requires 4 fields", records)
           ELSE SRVChecked(origin, data, records, rr, FirstBadUint(data, <<1, 2, 3>>, 16))
      [] rrType = "CAA" ->
           IF Len(data) < 3 THEN RecFail("CAA record requires 3 fields", records)
           ELSE IF ~ParseUint(data[1], 8).ok
           THEN RecFail("invalid CAA flags: " \o NumError(data[1], 8), records)
           ELSE RecAdd(records, "CAA",
                       [TTL |-> rr.TTL, Class |-> rr.Class,
                        Flags |-> ParseUint(data[1], 8).val,
                        Tag |-> data[2],
                        Value |-> Trim(data[3], {"\""})])
      [] rrType = "HINFO" ->
           IF Len(data) < 2 THEN RecFail("HINFO record requires 2 fields", records)
           ELSE RecAdd(records, "HINFO",
                       [TTL |-> rr.TTL, Class |-> rr.Class,
                        CPU |-> Trim(data[1], {"\""}),
                        OS |-> Trim(data[2], {"\""})])
      [] rrType = "NAPTR" ->
           IF Len(data) < 6 THEN RecFail("NAPTR record requires 6 fields", records)
           ELSE NAPTRChecked(origin, data, records, rr, FirstBadUint(data, <<1, 2>>, 16))
      [] rrType = "SPF" ->
           RecAdd(records, "SPF",
                  [TTL |-> rr.TTL, Class |-> rr.Class, Text |-> extractTXTContent(data)])
      [] OTHER -> RecFail("unsupported record type: " \o rrType, records)

(***************************************************************************)
(* Package path/filepath, on paths without "." and ".." elements           *)
(***************************************************************************)

IsAbs(path) == HasPrefix(path, "/")

RECURSIVE LastSlash(_, _)
LastSlash(path, i) ==
    IF i = 0 THEN 0 ELSE IF Ch(path, i) = "/" THEN i ELSE LastSlash(path, i - 1)

\* filepath.Dir: the path without its last element
Dir(path) ==
    LET i == LastSlash(path, Len(path))
    IN  IF i = 0 THEN "." ELSE IF i = 1 THEN "/" ELSE SubSeq(path, 1, i - 1)

\* filepath.Join(dir, name), cleaned
PathJoin(dir, name) ==
    IF dir = "." THEN name
    ELSE IF dir = "/" THEN "/" \o name
    ELSE dir \o "/" \o name

(***************************************************************************)
(* zoneparser/directives.go: entries of the zone                           *)
(***************************************************************************)

EntryTypeRecord == 0

EntryTypeGenerate == 1

EntryTypeTTL == 2

EntryTypeOrigin == 3

EntryTypeInclude == 4

\* a nil pointer
Nil == <<>>

\* a faulty entry constructor that does not set SourceFile
ZoneEntry_Unsourced(type, payload, rawLine, sourceFile) ==
    [Type |-> type,
     HostRecord |-> IF type = EntryTypeRecord THEN payload ELSE Nil,
     Generate |-> IF type = EntryTypeGenerate THEN payload ELSE Nil,
     TTL |-> IF type = EntryTypeTTL THEN payload ELSE Nil,
     Origin |-> IF type = EntryTypeOrigin THEN payload ELSE Nil,
     Include |-> IF type = EntryTypeInclude THEN payload ELSE Nil,
     RawLine |-> rawLine,
     SourceFile |-> ""]

\* ZoneEntry: only the pointer that Type names is set
ZoneEntry(type, payload, rawLine, sourceFile) ==
    [Type |-> type,
     HostRecord |-> IF type = EntryTypeRecord THEN payload ELSE Nil,
     Generate |-> IF type = EntryTypeGenerate THEN payload ELSE Nil,
     TTL |-> IF type = EntryTypeTTL THEN payload ELSE Nil,
     Origin |-> IF type = EntryTypeOrigin THEN payload ELSE Nil,
     Include |-> IF type = EntryTypeInclude THEN payload ELSE Nil,
     RawLine |-> rawLine,
     SourceFile |-> sourceFile]

\* ZoneMetadata{}
ZeroMetadata == [Origin |-> "", TTL |-> "0"]

(***************************************************************************)
(* zoneparser/parser.go: the pure parts of the handlers                    *)
(***************************************************************************)

\* the default TTL of NewParser
DefaultTTL == "86400"

RECURSIVE MultiLineFrom_AlwaysSpace(_, _, _, _, _)
\* a reader that puts a space before every line it appends
MultiLineFrom_AlwaysSpace(rest, k, fullLine, openParens, closeParens) ==
    IF ~(openParens > closeParens)
    THEN [result |-> fullLine, used |-> k, eof |-> FALSE]
    ELSE IF k >= Len(rest)
    THEN [result |-> fullLine, used |-> k, eof |-> TRUE]
    ELSE IF TrimSpace(rest[k + 1]) = "" \/ HasPrefix(TrimSpace(rest[k + 1]), ";")
    THEN MultiLineFrom_AlwaysSpace(rest, k + 1, fullLine, openParens, closeParens)
    ELSE MultiLineFrom_AlwaysSpace(
             rest, k + 1,
             fullLine \o " " \o parseLineWithComments(TrimSpace(rest[k + 1])).cleanLine,
             openParens
               + Count(parseLineWithComments(TrimSpace(rest[k + 1])).cleanLine, "("),
             closeParens
               + Count(parseLineWithComments(TrimSpace(rest[k + 1])).cleanLine, ")"))

RECURSIVE MultiLineFrom(_, _, _, _, _)
\* the loop of handleMultiLine over rest, the physical lines that follow the
\* opening line in the file; k lines have been scanned so far
MultiLineFrom(rest, k, fullLine, openParens, closeParens) ==
    IF ~(openParens > closeParens)
    THEN [result |-> fullLine, used |-> k, eof |-> FALSE]
    ELSE IF k >= Len(rest)
    THEN [result |-> fullLine, used |-> k, eof |-> TRUE]
    ELSE LET nextLine == TrimSpace(rest[k + 1])
             cleanNextLine == parseLineWithComments(nextLine).cleanLine
             lastChar == TrimSpace(fullLine)
             joined == IF /\ Len(lastChar) > 0
                          /\ Ch(lastChar, Len(lastChar)) = "\""
                          /\ HasPrefix(cleanNextLine, "\"")
                       THEN fullLine \o cleanNextLine
                       ELSE fullLine \o " " \o cleanNextLine
         IN  IF nextLine = "" \/ HasPrefix(nextLine, ";")
             THEN MultiLineFrom(rest, k + 1, fullLine, openParens, closeParens)
             ELSE MultiLineFrom(rest, k + 1, joined,
                                openParens + Count(cleanNextLine, "("),
                                closeParens + Count(cleanNextLine, ")"))

\* handleMultiLine: the joined line, the number of further physical lines
\* scanned, and whether the scanner reached the end of the file
handleMultiLine(rest, line) ==
    MultiLineFrom(rest, 0, line, Count(line, "("), Count(line, ")"))

\* a faulty lookup that never finds the host
FindHostRecord_Never(zone, qualifiedHostname) == 0

\* the index of the first Record entry for the name, 0 when there is none
FindHostRecord(zone, qualifiedHostname) ==
    LET hits == {i \in 1..Len(zone) :
                    /\ zone[i].Type = EntryTypeRecord
                    /\ zone[i].HostRecord.Hostname = qualifiedHostname}
    IN  IF hits = {} THEN 0 ELSE CHOOSE i \in hits : \A j \in hits : i <= j

\* whether parseRecord takes the owner from the previous record
UsesPreviousName(parts, origLine) ==
    LET startsWithWhitespace ==
            Len(origLine) > 0 /\ (Ch(origLine, 1) = " " \/ Ch(origLine, 1) = "\t")
    IN  \/ parts[1] = ""
        \/ HasPrefix(parts[1], ";")
        \/ startsWithWhitespace /\ (parts[1] = ClassIN \/ isKnownRRType(parts[1]))

\* the [ttl] [class] type data... pattern over the tokens after the owner
ClassifyFields(parts) ==
    LET hasTTL == 0 < Len(parts) /\ isNumeric(parts[1])
        i1 == IF hasTTL THEN 1 ELSE 0
        hasClass == /\ i1 < Len(parts)
                    /\ \/ parts[i1 + 1] = ClassIN
                       \/ /\ ~isKnownRRType(parts[i1 + 1])
                          /\ i1 + 1 < Len(parts)
                          /\ isKnownRRType(parts[i1 + 2])
        i2 == IF hasClass THEN i1 + 1 ELSE i1
    IN  [ttlStr |-> IF hasTTL THEN parts[1] ELSE "",
         class |-> IF hasClass THEN parts[i1 + 1] ELSE ClassIN,
         typeOK |-> i2 < Len(parts) /\ isKnownRRType(parts[i2 + 1]),
         rrType |-> IF i2 < Len(parts) THEN parts[i2 + 1] ELSE "",
         data |-> SubSeq(parts, i2 + 2, Len(parts))]

\* the result of parseRecord when it returns before resolving an owner
RecordReturn(err, zone, currentName) ==
    [err |-> err, zone |-> zone, currentName |-> currentName,
     hostname |-> "", qualifiedHostname |-> "", recordTTL |-> "", resolved |-> FALSE]

\* parseRecord from the typed record on: the record is parsed into the
\* DNSRecords of entry at of zone1
RecordParsed(c, zone1, at, sp) ==
    [err |-> sp.err,
     zone |-> [zone1 EXCEPT ![at].HostRecord.Records = sp.records],
     currentName |-> c.name1,
     hostname |-> c.hostname,
     qualifiedHostname |-> c.qualifiedHostname,
     recordTTL |-> c.recordTTL,
     resolved |-> TRUE]

RecordInEntry(c, zone1, at) ==
    RecordParsed(c, zone1, at,
                 parseSpecificRecord(c.origin, c.f.rrType, c.f.data, c.comment,
                                     zone1[at].HostRecord.Records,
                                     [TTL |-> c.recordTTL, Class |-> c.f.class]))

\* a faulty parseRecord that puts a new host entry first in the zone
RecordForHost_Front(c, found) ==
    IF found = 0
    THEN RecordInEntry(c,
                       <<ZoneEntry(EntryTypeRecord,
                                   [Hostname |-> c.qualifiedHostname,
                                    Records |-> EmptyDNSRecords],
                                   c.origLine, c.sourceFile)>> \o c.zone,
                       1)
    ELSE RecordInEntry(c, c.zone, found)

\* parseRecord from the lookup of the host on: found is the index of the
\* existing entry, or 0 and a new entry is appended
RecordForHost(c, found) ==
    IF found = 0
    THEN RecordInEntry(c,
                       Append(c.zone,
                              ZoneEntry(EntryTypeRecord,
                                        [Hostname |-> c.qualifiedHostname,
                                         Records |-> EmptyDNSRecords],
                                        c.origLine, c.sourceFile)),
                       Len(c.zone) + 1)
    ELSE RecordInEntry(c, c.zone, found)

RecordQualified(c) == RecordForHost(c, FindHostRecord(c.zone, c.qualifiedHostname))

\* parseRecord from the classification of the fields on
RecordOfType(c, f) ==
    IF ~f.typeOK
    THEN RecordReturn(Errorf("invalid or missing record type in: " \o c.line),
                      c.zone, c.name1)
    ELSE IF f.ttlStr # "" /\ ~ParseUint(f.ttlStr, 32).ok
    THEN RecordReturn(Errorf("invalid TTL: " \o NumError(f.ttlStr, 32)), c.zone, c.name1)
    ELSE RecordQualified(
            [f |-> f,
             recordTTL |-> IF f.ttlStr # "" THEN ParseUint(f.ttlStr, 32).val ELSE c.ttl,
             qualifiedHostname |-> qualifyDomainName(c.hostname, c.origin)] @@ c)

\* parseRecord from the owner on: hostname is the owner, name1 what
\* *currentName becomes and parts the tokens after the owner
RecordOfOwner(c, hostname, name1, parts) ==
    RecordOfType([hostname |-> hostname, name1 |-> name1] @@ c, ClassifyFields(parts))

\* parseRecord from the tokens on
RecordOfTokens(c, parts) ==
    IF Len(parts) < MinRecordTokens
    THEN RecordReturn(Errorf("incomplete record: " \o c.line), c.zone, c.currentName)
    ELSE IF UsesPreviousName(parts, c.origLine)
    THEN IF c.currentName = Nil
         THEN RecordReturn(Errorf("no previous hostname for record: " \o c.line),
                           c.zone, c.currentName)
         ELSE RecordOfOwner(c, c.currentName[1], c.currentName,
                            IF parts[1] = "" THEN Tail(parts) ELSE parts)
    ELSE RecordOfOwner(c, parts[1], <<parts[1]>>, Tail(parts))

\* parseRecord from the clean line pl and its tokens on
RecordTokenized(c, pl, toks) ==
    IF pl.cleanLine = "" THEN RecordReturn(NoError, c.zone, c.currentName)
    ELSE RecordOfTokens([comment |-> pl.comment] @@ c, toks)

RecordOfLine(c, pl) == RecordTokenized(c, pl, tokenize(pl.cleanLine))

\* parseRecord: the error, the zone and *currentName it leaves, and its
\* locals hostname, qualifiedHostname and recordTTL
parseRecord(origin, ttl, zone, line, currentName, origLine, sourceFile) ==
    RecordOfLine([origin |-> origin, ttl |-> ttl, zone |-> zone, line |-> line,
                  currentName |-> currentName, origLine |-> origLine,
                  sourceFile |-> sourceFile],
                 parseLineWithComments(line))

RECURSIVE GenerateRHS(_, _)
\* the RHS template of $GENERATE: parts[5:] unquoted and joined by spaces
GenerateRHS(parts, i) ==
    IF i > Len(parts) THEN ""
    ELSE (IF i > 6 THEN " " ELSE "") \o Trim(parts[i], {"\""}) \o GenerateRHS(parts, i + 1)

\* the path that $INCLUDE opens, relative to the including file
IncludePath(includeFile, filename) ==
    IF ~IsAbs(includeFile) THEN PathJoin(Dir(filename), includeFile) ELSE includeFile

\* handleDirective from the fields of the line on, for every directive but
\* the descent of $INCLUDE: the error and the parser fields it leaves
DirectiveOfParts(origin, ttl, zone, originFound, line, filename, origLine, parts) ==
    LET same == [err |-> NoError, origin |-> origin, ttl |-> ttl, zone |-> zone,
                 originFound |-> originFound]
        parsed == ParseUint(parts[2], 32)
        newOrigin == IF ~HasSuffix(parts[2], ".") THEN parts[2] \o "." ELSE parts[2]
    IN  IF Len(parts) < 2
        THEN [same EXCEPT !.err = Errorf("incomplete directive: " \o line)]
        ELSE CASE parts[1] = "$GENERATE" ->
                    IF Len(parts) < 6
                    THEN [same EXCEPT !.err = Errorf("invalid $GENERATE format")]
                    ELSE [same EXCEPT !.zone =
                            Append(zone,
                                   ZoneEntry(EntryTypeGenerate,
                                             [Range |-> parts[2],
                                              OwnerName |-> parts[3],
                                              RRType |-> parts[5],
                                              RData |-> GenerateRHS(parts, 6),
                                              TTL |-> ttl,
                                              Class |-> parts[4],
                                              Origin |-> origin],
                                             origLine, filename))]
               [] parts[1] = "$TTL" ->
                    IF ~parsed.ok
                    THEN [same EXCEPT !.err =
                            Errorf("invalid TTL value: " \o NumError(parts[2], 32))]
                    ELSE [same EXCEPT
                            !.ttl = parsed.val,
                            !.zone = Append(zone,
                                            ZoneEntry(EntryTypeTTL, [Value |-> parsed.val],
                                                      origLine, filename))]
               [] parts[1] = "$ORIGIN" ->
                    [same EXCEPT
                       !.origin = newOrigin,
                       !.originFound = TRUE,
                       !.zone = Append(zone,
                                       ZoneEntry(EntryTypeOrigin, [Domain |-> newOrigin],
                                                 origLine, filename))]
               [] parts[1] = "$INCLUDE" -> same
               [] OTHER ->
                    [same EXCEPT !.err = Errorf("unknown directive: " \o parts[1])]

handleDirective(origin, ttl, zone, originFound, line, filename, origLine) ==
    DirectiveOfParts(origin, ttl, zone, originFound, line, filename, origLine,
                     Fields(line))

(***************************************************************************)
(* The files.  The content of a file is determined lazily: a file is the   *)
(* sequence of physical lines read from it so far, and a scan that reaches *)
(* the end of what is determined either reads one more group of lines,     *)
(* drawn from Chunks, or finds the end of the file.  A second scan of the  *)
(* same file reads the same lines.                                         *)
(***************************************************************************)

\* the total number of physical lines in all files
MaxLines == 4

\* the number of nested parseFile calls
MaxDepth == 3

MainFile == "/z/main.zone"

IncFile == "/z/inc.zone"

\* the files that exist; opening any other path fails
Files == {MainFile, IncFile}

\* the paths handed to NewParser
FileArgs == {MainFile, "nofile.zone"}

DirectiveChunks ==
    { <<"$TTL 300">>,
      <<"$ORIGIN example.com.">>,
      <<"$INCLUDE inc.zone">>,
      <<"$INCLUDE gone.zone">>,
      <<"$GENERATE 1-10 dhcp-$ IN A 192.168.1.$">>,
      <<"$GENERATE 1-10 dhcp-$ A 192.168.1.$">>,
      <<"$TTL abc">>,
      <<"$BOGUS x">>,
      <<"$ORIGIN">> }

RecordChunks ==
    { <<"www\tIN\tA\t10.0.0.1 ;inaddr">>,
      <<"@ IN NS ns1">>,
      <<"\tIN\tMX\t10 mail">>,
      <<"\t600\tIN\tA\t10.0.0.2">>,
      <<"\tA\t10.0.0.3">>,
      <<"ftp.example.com. 600 CNAME www">>,
      <<"\tTXT\t\"a;b\"\t\"c\" ; note">>,
      <<"@ IN SOA ns1 adm (", "  1 2 3 4 5 ) ; minimum">>,
      <<"host IN A 999.999.999.999">>,
      <<"host IN">>,
      <<"www IN MX 10">>,
      <<"www IN BOGUS x">> }

SkipChunks == { <<"; note">> }

\* the groups of physical lines a file can continue with
Chunks == DirectiveChunks \cup RecordChunks \cup SkipChunks

(***************************************************************************)
(* State                                                                   *)
(***************************************************************************)

VARIABLES
    file,         \* Parser.file
    origin,       \* Parser.origin
    ttl,          \* Parser.ttl
    zone,         \* Parser.zone
    originFound,  \* Parser.originFound
    metadata,     \* Parser.metadata
    stack,        \* the active parseFile calls, outermost first: the file each
                  \* has open, its lineNum and its currentName
    fs,           \* the files: the lines determined so far, and whether the
                  \* last of them is the last line of the file
    status,       \* "new", "scanning", "done" or "failed"
    ret,          \* what Parse returned: zone, metadata, err
    open,         \* the files that os.Open has opened and that are not closed,
                  \* in the order of their opening
    gen,          \* dhcpgen: the arguments of generateStatements, its
                  \* position, its locals and what it returns
    arpa,         \* mkarpa: its position, the -s flag, the reverse zones
                  \* and what it has written
    last          \* the last loop iteration of parseFile: its kind, file,
                  \* lines and, for a record line, the locals of parseRecord

vars ==
    <<file, origin, ttl, zone, originFound, metadata, stack, fs, status, ret, open, gen,
      arpa, last>>

\* dhcpgen is not running
NoGen == [pc |-> "none"]

\* mkarpa is not running
NoArpa == [pc |-> "none"]

NoLast ==
    [op |-> "none", file |-> "", lineNum |-> 0, origLine |-> "", line |-> "",
     prevName |-> Nil, hostname |-> "", qualifiedHostname |-> "", recordTTL |-> "",
     resolved |-> FALSE, failed |-> FALSE, depth |-> 0]

\* NewParser(filename)
Init ==
    /\ file \in FileArgs
    /\ origin = ""
    /\ ttl = DefaultTTL
    /\ zone = <<>>
    /\ originFound = FALSE
    /\ metadata = [Origin |-> "", TTL |-> DefaultTTL]
    /\ stack = <<>>
    /\ fs = [f \in Files |-> [lines |-> <<>>, complete |-> FALSE]]
    /\ status = "new"
    /\ ret = [zone |-> Nil, metadata |-> ZeroMetadata, err |-> NoError]
    /\ open = <<>>
    /\ gen = NoGen
    /\ arpa = NoArpa
    /\ last = NoLast

Top == stack[Len(stack)]

\* the number of physical lines determined so far, in all files
TotalLines == Len(fs[MainFile].lines) + Len(fs[IncFile].lines)

\* the frame of a parseFile call that has just opened filename
NewFrame(filename) == [file |-> filename, lineNum |-> 0, currentName |-> Nil]

\* the error of os.Open for a path that does not exist, as parseFile returns it
OpenError(filename) ==
    Errorf("error opening file " \o filename \o ": open " \o filename
             \o ": no such file or directory")

RECURSIVE PropagateUp(_, _, _)
\* err is returned by the parseFile call of frame k; every enclosing
\* $INCLUDE and its parseFile wrap it on the way out
PropagateUp(st, k, err) ==
    IF k = 1 THEN err
    ELSE PropagateUp(st, k - 1,
            Wrap("error on line " \o Itoa(st[k - 1].lineNum) \o ": ",
                 Wrap("error parsing included file " \o st[k].file \o ": ", err)))

\* a faulty Parse that hands out what it has parsed along with the error
ParseReturn_Partial(err, z, o, t) ==
    [zone |-> z, metadata |-> [Origin |-> o, TTL |-> t], err |-> err]

\* what Parse returns
ParseReturn(err, z, o, t) ==
    IF err # NoError
    THEN [zone |-> Nil, metadata |-> ZeroMetadata, err |-> err]
    ELSE [zone |-> z, metadata |-> [Origin |-> o, TTL |-> t], err |-> NoError]

\* a faulty return that closes the file of the innermost call only
DeferredClose_Innermost(files, n) ==
    IF n = 0 THEN files ELSE SubSeq(files, 1, Len(files) - 1)

\* defer file.Close(): the n innermost calls of parseFile that have opened
\* their file return
DeferredClose(files, n) == SubSeq(files, 1, Len(files) - n)

\* the first fatal error leaves every parseFile call and then Parse; the
\* calls of stack have opened their file
Abort(st, err) ==
    /\ stack' = <<>>
    /\ open' = DeferredClose(open, Len(stack))
    /\ status' = "failed"
    /\ ret' = ParseReturn(PropagateUp(st, Len(st), err), zone', origin', ttl')
    /\ UNCHANGED metadata

\* Parse: the call, up to the first iteration of the scan of the top-level file
ParseCall ==
    /\ status = "new"
    /\ UNCHANGED <<file, gen, arpa, origin, ttl, zone, originFound, fs, last>>
    /\ IF file \in Files
       THEN /\ stack' = <<NewFrame(file)>>
            /\ open' = Append(open, file)
            /\ status' = "scanning"
            /\ UNCHANGED <<ret, metadata>>
       ELSE Abort(<<NewFrame(file)>>, OpenError(file))

\* the logical line that starts at physical line n + 1 of the lines known,
\* with the fields that handleDirective splits it into and the clean line,
\* comment and tokens that parseRecord splits it into
LineOf(known, n, origLine, trimmed, skip, ml) ==
    [origLine |-> origLine, line |-> ml.result, skip |-> skip,
     parts |-> Fields(ml.result),
     pl |-> parseLineWithComments(ml.result),
     toks |-> tokenize(parseLineWithComments(ml.result).cleanLine),
     lineNum |-> n + 1 + ml.used, eof |-> ml.eof, lines |-> known]

LineFrom(known, n, trimmed, skip) ==
    LineOf(known, n, known[n + 1], trimmed, skip,
           IF ~skip /\ containsUnquotedParenthesis(trimmed)
           THEN handleMultiLine(SubSeq(known, n + 2, Len(known)), trimmed)
           ELSE [result |-> trimmed, used |-> 0, eof |-> FALSE])

LineTrimmed(known, n, trimmed) ==
    LineFrom(known, n, trimmed, trimmed = "" \/ HasPrefix(trimmed, ";"))

LineAt(known, n) == LineTrimmed(known, n, TrimSpace(known[n + 1]))

\* the logical line that each group of lines makes, read from its first line
ChunkLine == [ext \in Chunks |-> LineAt(ext, 0)]

\* the logical line cl of the group ext, read where the lines determined
\* of the top file end
Continued(ext, cl) ==
    [cl EXCEPT !.lineNum = @ + Top.lineNum, !.lines = fs[Top.file].lines \o ext]

\* the logical line that the scan of the top file reads next: the one at
\* lineNum of the lines determined or, at their end, the one of the group ext
\* by which the file continues
NextLine(ext) ==
    IF ext = <<>> THEN LineAt(fs[Top.file].lines, Top.lineNum)
    ELSE Continued(ext, ChunkLine[ext])

\* the scan of the top file can read a line: one already determined, or the
\* first of a group ext by which the file continues
CanRead(ext) ==
    /\ status = "scanning"
    /\ IF Top.lineNum < Len(fs[Top.file].lines)
       THEN ext = <<>>
       ELSE /\ ext \in Chunks
            /\ ~fs[Top.file].complete
            /\ TotalLines + Len(ext) <= MaxLines

\* a group that continues the file is the group of physical lines of one
\* iteration: the iteration reads it to its end
ReadsToEnd(ext, nl) == ext = <<>> \/ nl.lineNum = Len(nl.lines)

\* the file as the step leaves it
Read(nl) ==
    fs' = [fs EXCEPT ![Top.file] =
              [lines |-> nl.lines, complete |-> @.complete \/ nl.eof]]

Advance(st, nl) == [st EXCEPT ![Len(st)].lineNum = nl.lineNum]

Note(op, nl, r) ==
    last' = [op |-> op, file |-> Top.file, lineNum |-> nl.lineNum,
             origLine |-> nl.origLine, line |-> nl.line,
             prevName |-> Top.currentName, hostname |-> r.hostname,
             qualifiedHostname |-> r.qualifiedHostname, recordTTL |-> r.recordTTL,
             resolved |-> r.resolved, failed |-> r.err # NoError,
             depth |-> Len(stack)]

IsDirective(nl) == ~nl.skip /\ HasPrefix(nl.line, "$")

IsInclude(nl) == IsDirective(nl) /\ Len(nl.parts) >= 2 /\ nl.parts[1] = "$INCLUDE"

SkipIteration(ext, nl) ==
    /\ nl.skip
    /\ ReadsToEnd(ext, nl)
    /\ Read(nl)
    /\ stack' = Advance(stack, nl)
    /\ Note("skip", nl, RecordReturn(NoError, zone, Top.currentName))
    /\ UNCHANGED <<file, gen, arpa, origin, ttl, zone, originFound, metadata, status, ret, open>>

\* an iteration of parseFile on an empty line or a comment line
SkipLine == \E ext \in Chunks \cup {<<>>} : CanRead(ext) /\ SkipIteration(ext, NextLine(ext))

RecordEffect(nl, r) ==
    /\ Read(nl)
    /\ zone' = r.zone
    /\ Note("record", nl, r)
    /\ UNCHANGED <<file, gen, arpa, origin, ttl, originFound>>
    /\ IF r.err = NoError
       THEN /\ stack' = [Advance(stack, nl) EXCEPT
                           ![Len(stack)].currentName = r.currentName]
            /\ UNCHANGED <<metadata, status, ret, open>>
       ELSE Abort(Advance(stack, nl),
                  Wrap("error parsing record on line " \o Itoa(nl.lineNum) \o ": ",
                       r.err))

RecordIteration(ext, nl) ==
    /\ ~nl.skip
    /\ ~IsDirective(nl)
    /\ ReadsToEnd(ext, nl)
    /\ RecordEffect(nl,
                    RecordTokenized([origin |-> origin, ttl |-> ttl, zone |-> zone,
                                     line |-> nl.line, currentName |-> Top.currentName,
                                     origLine |-> nl.origLine, sourceFile |-> Top.file],
                                    nl.pl, nl.toks))

\* an iteration of parseFile on a record line
RecordLine == \E ext \in Chunks \cup {<<>>} : CanRead(ext) /\ RecordIteration(ext, NextLine(ext))

DirectiveEffect(nl, d) ==
    /\ Read(nl)
    /\ origin' = d.origin
    /\ ttl' = d.ttl
    /\ zone' = d.zone
    /\ originFound' = d.originFound
    /\ Note("directive", nl, RecordReturn(d.err, zone, Top.currentName))
    /\ UNCHANGED <<file, gen, arpa>>
    /\ IF d.err = NoError
       THEN /\ stack' = Advance(stack, nl)
            /\ UNCHANGED <<metadata, status, ret, open>>
       ELSE Abort(Advance(stack, nl),
                  Wrap("error on line " \o Itoa(nl.lineNum) \o ": ", d.err))

DirectiveIteration(ext, nl) ==
    /\ IsDirective(nl)
    /\ ~IsInclude(nl)
    /\ ReadsToEnd(ext, nl)
    /\ DirectiveEffect(nl, DirectiveOfParts(origin, ttl, zone, originFound, nl.line,
                                            Top.file, nl.origLine, nl.parts))

\* an iteration of parseFile on a directive other than a complete $INCLUDE
DirectiveLine ==
    \E ext \in Chunks \cup {<<>>} : CanRead(ext) /\ DirectiveIteration(ext, NextLine(ext))

IncludeEffect(nl, d, includeFile) ==
    /\ Read(nl)
    /\ origin' = d.origin
    /\ ttl' = d.ttl
    /\ zone' = d.zone
    /\ originFound' = d.originFound
    /\ UNCHANGED <<file, gen, arpa>>
    /\ IF includeFile \in Files
       THEN /\ stack' = Append(Advance(stack, nl), NewFrame(includeFile))
            /\ open' = Append(open, includeFile)
            /\ Note("include", nl, RecordReturn(NoError, zone, Top.currentName))
            /\ UNCHANGED <<metadata, status, ret>>
       ELSE /\ Note("include", nl,
                    RecordReturn(OpenError(includeFile), zone, Top.currentName))
            /\ Abort(Append(Advance(stack, nl), NewFrame(includeFile)),
                     OpenError(includeFile))

IncludeIteration(ext, nl) ==
    /\ IsInclude(nl)
    /\ ReadsToEnd(ext, nl)
    /\ IncludeEffect(nl,
                     DirectiveOfParts(origin, ttl, zone, originFound, nl.line,
                                      Top.file, nl.origLine, nl.parts),
                     IncludePath(nl.parts[2], Top.file))

\* an iteration of parseFile on $INCLUDE, up to the first iteration of the
\* scan of the included file
IncludeLine ==
    \E ext \in Chunks \cup {<<>>} :
        CanRead(ext) /\ Len(stack) < MaxDepth /\ IncludeIteration(ext, NextLine(ext))

\* a faulty return from an included file that puts the origin and the
\* default TTL back to those of a new parser
EndOfFile_Forgetting ==
    /\ status = "scanning"
    /\ Top.lineNum = Len(fs[Top.file].lines)
    /\ fs' = [fs EXCEPT ![Top.file].complete = TRUE]
    /\ last' = [NoLast EXCEPT !.op = "eof", !.file = Top.file,
                              !.lineNum = Top.lineNum, !.depth = Len(stack)]
    /\ stack' = SubSeq(stack, 1, Len(stack) - 1)
    /\ open' = DeferredClose(open, 1)
    /\ UNCHANGED <<file, gen, arpa, zone, originFound>>
    /\ IF Len(stack) = 1
       THEN /\ status' = "done"
            /\ metadata' = [Origin |-> origin, TTL |-> ttl]
            /\ ret' = ParseReturn(NoError, zone, origin, ttl)
            /\ UNCHANGED <<origin, ttl>>
       ELSE /\ origin' = ""
            /\ ttl' = DefaultTTL
            /\ UNCHANGED <<metadata, status, ret>>

\* scanner.Scan() finds the end of the file: parseFile returns nil, to the
\* $INCLUDE that called it or to Parse
EndOfFile ==
    /\ status = "scanning"
    /\ Top.lineNum = Len(fs[Top.file].lines)
    /\ fs' = [fs EXCEPT ![Top.file].complete = TRUE]
    /\ last' = [NoLast EXCEPT !.op = "eof", !.file = Top.file,
                              !.lineNum = Top.lineNum, !.depth = Len(stack)]
    /\ stack' = SubSeq(stack, 1, Len(stack) - 1)
    /\ open' = DeferredClose(open, 1)
    /\ UNCHANGED <<file, gen, arpa, origin, ttl, zone, originFound>>
    /\ IF Len(stack) = 1
       THEN /\ status' = "done"
            /\ metadata' = [Origin |-> origin, TTL |-> ttl]
            /\ ret' = ParseReturn(NoError, zone, origin, ttl)
       ELSE UNCHANGED <<metadata, status, ret>>

Next ==
    \/ ParseCall
    \/ SkipLine
    \/ RecordLine
    \/ DirectiveLine
    \/ IncludeLine
    \/ EndOfFile

Spec == Init /\ [][Next]_vars

(***************************************************************************)
(* Properties                                                              *)
(***************************************************************************)

\* the Record entries of a zone
RecordIndexes(z) == {i \in 1..Len(z) : z[i].Type = EntryTypeRecord}

RECURSIVE CountTyped(_, _)
\* the number of typed records in a DNSRecords, over the types in S
CountTyped(records, S) ==
    IF S = {} THEN 0
    ELSE LET t == CHOOSE x \in S : TRUE
         IN  Len(records[t]) + CountTyped(records, S \ {t})

\* the number of typed records of entry i of z
TypedCount(z, i) == CountTyped(z[i].HostRecord.Records, knownRRTypes)

\* entry i of z but for the typed records it holds
EntryFrame(z, i) ==
    [z[i] EXCEPT !.HostRecord =
        IF z[i].Type = EntryTypeRecord THEN [Hostname |-> @.Hostname] ELSE @]

\* every typed record of old is in new, at the same place of its list
KeepsTyped(old, new) ==
    \A t \in knownRRTypes :
        /\ Len(new[t]) >= Len(old[t])
        /\ SubSeq(new[t], 1, Len(old[t])) = old[t]

\* the first character of the physical line is a space or a tab
StartsBlank(origLine) ==
    Len(origLine) > 0 /\ Ch(origLine, 1) \in {" ", "\t"}

\* C1: when a line raises a parse error or a file cannot be opened, Parse
\* returns a non-nil error, no entry at all and the zero metadata, whatever
\* had been parsed before the failing line
C1_ErrorReturnsNothing ==
    (last.failed \/ status = "failed") =>
        /\ status = "failed"
        /\ ret.err # NoError
        /\ ret.zone = Nil
        /\ ret.metadata = ZeroMetadata

\* a parse that fails in an included file after entries have been parsed and
\* $TTL and $ORIGIN have been set
C1_Witness ==
    /\ status = "failed"
    /\ last.failed
    /\ last.depth = 2
    /\ Len(zone) >= 2
    /\ originFound
    /\ ttl # DefaultTTL

\* C2: no two Record entries of the zone hold the same Hostname
C2_OneEntryPerHost ==
    \A i, j \in RecordIndexes(zone) :
        zone[i].HostRecord.Hostname = zone[j].HostRecord.Hostname => i = j

\* a host named on two lines that are not adjacent, with the records of both
\* lines in its one entry
C2_Witness ==
    /\ status = "done"
    /\ Cardinality(RecordIndexes(zone)) >= 2
    /\ \E i \in RecordIndexes(zone) :
          /\ Len(zone[i].HostRecord.Records["NS"]) >= 1
          /\ Len(zone[i].HostRecord.Records["SOA"]) >= 1
          /\ i < Len(zone)

\* the effect on the zone of a record line parsed for the name q
C3_Effect(q, at) ==
    IF at # 0
    THEN /\ Len(zone') = Len(zone)
         /\ \A i \in 1..Len(zone) : i # at => zone'[i] = zone[i]
         /\ EntryFrame(zone', at) = EntryFrame(zone, at)
         /\ KeepsTyped(zone[at].HostRecord.Records, zone'[at].HostRecord.Records)
         /\ TypedCount(zone', at) = TypedCount(zone, at) + 1
    ELSE /\ Len(zone') = Len(zone) + 1
         /\ SubSeq(zone', 1, Len(zone)) = zone
         /\ zone'[Len(zone')].Type = EntryTypeRecord
         /\ zone'[Len(zone')].HostRecord.Hostname = q
         /\ TypedCount(zone', Len(zone')) = 1

\* the Record entry of z named q: the first one, 0 when there is none
C3_EntryOf(z, q) ==
    IF \E i \in RecordIndexes(z) : z[i].HostRecord.Hostname = q
    THEN CHOOSE i \in RecordIndexes(z) :
            /\ z[i].HostRecord.Hostname = q
            /\ \A j \in RecordIndexes(z) : z[j].HostRecord.Hostname = q => i <= j
    ELSE 0

\* C3: a successfully parsed record line whose name already has a Record
\* entry appends exactly one typed record to that entry and changes nothing
\* else in the zone (length, positions, RawLine and SourceFile stay); for a
\* new name it appends exactly one entry, holding that one record, at the end
C3_RecordLineEffect ==
    [][(last'.op = "record" /\ last'.resolved /\ ~last'.failed) =>
          C3_Effect(last'.qualifiedHostname, C3_EntryOf(zone, last'.qualifiedHostname))]_vars

\* three consecutive lines for one owner: one entry, at the position of the
\* first line and with its RawLine, holding the three records
C3_Witness ==
    /\ last.op = "record"
    /\ ~last.failed
    /\ last.lineNum = 4
    /\ Len(zone) = 2
    /\ zone[1].Type = EntryTypeOrigin
    /\ zone[2].Type = EntryTypeRecord
    /\ TypedCount(zone, 2) = 3
    /\ zone[2].RawLine # last.origLine
\* the tokens of a record line after its owner field; a line that starts
\* with a blank has no owner field
FieldsAfterOwner(line, origLine, toks) ==
    IF StartsBlank(origLine) \/ toks = <<>> THEN toks ELSE Tail(toks)

RECURSIVE AllDigits(_, _)
\* the characters of s from i on are decimal digits
AllDigits(s, i) == i > Len(s) \/ (IsDigit(Ch(s, i)) /\ AllDigits(s, i + 1))

\* the TTL field of a record line by the grammar [owner] [ttl] [class] type
\* data: the first field after the owner when it is a number, else ""
TTLField(fields) ==
    IF fields # <<>> /\ fields[1] # "" /\ AllDigits(fields[1], 1) THEN fields[1] ELSE ""

\* the fields from the type on, by the same grammar
FromType(fields, ttlField) ==
    LET f1 == IF ttlField # "" THEN Tail(fields) ELSE fields
    IN  IF f1 # <<>> /\ f1[1] = ClassIN THEN Tail(f1) ELSE f1

\* the fields are a known type followed by data that this type accepts
TypeAndData(fields) ==
    /\ fields # <<>>
    /\ fields[1] \in knownRRTypes
    /\ parseSpecificRecord("example.com.", fields[1], Tail(fields), "", EmptyDNSRecords,
                           [TTL |-> DefaultTTL, Class |-> ClassIN]).err = NoError

\* the fields of the logical line of iteration l, after its owner
FieldsOf(l) ==
    FieldsAfterOwner(l.line, l.origLine, tokenize(parseLineWithComments(l.line).cleanLine))

\* the fields of the logical line of the last iteration, after its owner
LastFields == FieldsOf(last)

\* C4: a record line that begins with a space or a tab is attributed to the
\* owner of the previous record line of the same file, whichever optional
\* field comes first on it, and it establishes no new owner
C4_BlankOwnerContinues ==
    (last.op = "record" /\ ~last.failed /\ StartsBlank(last.origLine)
        /\ last.prevName # Nil) =>
        /\ last.resolved
        /\ last.hostname = last.prevName[1]
        /\ Top.currentName = last.prevName

\* a blank-owner line that starts with its TTL, read after an owner is set
C4_Witness ==
    /\ last.op = "record"
    /\ ~last.failed
    /\ StartsBlank(last.origLine)
    /\ last.prevName # Nil
    /\ TTLField(LastFields) # ""

\* C5: a record line made of an optional owner, an optional TTL, an optional
\* class, a known type and data the type accepts is parsed without error; a
\* line without owner needs a previous owner in its file
C5_GrammarAccepted ==
    (last.op = "record"
        /\ TypeAndData(FromType(LastFields, TTLField(LastFields)))
        /\ (StartsBlank(last.origLine) => last.prevName # Nil)) =>
        ~last.failed

\* a blank-owner line of two tokens, a type and its data, read after an owner
\* is set
C5_Witness ==
    /\ last.op = "record"
    /\ StartsBlank(last.origLine)
    /\ last.prevName # Nil
    /\ Len(LastFields) = 2
    /\ TypeAndData(LastFields)

\* C6: a parse in which no $ORIGIN directive was processed does not succeed
C6_OriginRequired == status = "done" => originFound

\* a parse that ends without error and has read records but no $ORIGIN
C6_Witness ==
    /\ status = "done"
    /\ ~originFound
    /\ RecordIndexes(zone) # {}

\* the value of the last $TTL directive processed, 86400 when there is none
DefaultTTLOf(z) ==
    LET S == {i \in 1..Len(z) : z[i].Type = EntryTypeTTL}
    IN  IF S = {} THEN "86400"
        ELSE z[CHOOSE i \in S : \A j \in S : j <= i].TTL.Value

\* the typed records of new that old does not hold
NewTyped(old, new) ==
    {new[t][k] : <<t, k>> \in {x \in knownRRTypes \X (1..MaxLines) :
                                   Len(old[x[1]]) < x[2] /\ x[2] <= Len(new[x[1]])}}

\* the DNSRecords of the entry named q in z, empty when z has no such entry
RecordsOf(z, q) ==
    IF C3_EntryOf(z, q) = 0 THEN EmptyDNSRecords
    ELSE z[C3_EntryOf(z, q)].HostRecord.Records

\* the typed records that a record line with TTL field ttlField adds have
\* that TTL, or the default of zone z when the line has no TTL field
TTLOfNew(z, ttlField, added) ==
    \A r \in added : r.TTL = IF ttlField # "" THEN ttlField ELSE DefaultTTLOf(z)

\* C7: the TTL of a typed record is the TTL field of its line when the line
\* has one, else the value of the last $TTL directive processed before the
\* line, else 86400; no later step changes the TTL of a record already parsed
C7_RecordTTL ==
    [][/\ (last'.op = "record" /\ last'.resolved /\ ~last'.failed) =>
            TTLOfNew(zone, TTLField(FieldsOf(last')),
                     NewTyped(RecordsOf(zone, last'.qualifiedHostname),
                              RecordsOf(zone', last'.qualifiedHostname)))
       /\ \A i \in RecordIndexes(zone) :
            /\ i \in RecordIndexes(zone')
            /\ KeepsTyped(zone[i].HostRecord.Records, zone'[i].HostRecord.Records)
      ]_vars

\* a record stored with a TTL that is neither a field of its line nor the
\* default of the parser
C7_Witness ==
    /\ last.op = "record"
    /\ last.resolved
    /\ ~last.failed
    /\ TTLField(LastFields) # ""
    /\ last.recordTTL # TTLField(LastFields)

\* C8: the Hostname of every Record entry is not empty and ends with a dot
C8_HostnameQualified ==
    \A i \in RecordIndexes(zone) :
        /\ zone[i].HostRecord.Hostname # ""
        /\ HasSuffix(zone[i].HostRecord.Hostname, ".")

\* a record for the owner @ read before any $ORIGIN
C8_Witness ==
    /\ last.op = "record"
    /\ ~last.failed
    /\ last.hostname = "@"
    /\ ~originFound

\* C9: entries are in the order in which the lines that created them were
\* read: a step creates at most one entry, for the line it reads, and puts it
\* after every entry created before; no entry moves or disappears
C9_EntriesInReadOrder ==
    [][/\ Len(zone) <= Len(zone')
       /\ Len(zone') <= Len(zone) + 1
       /\ \A i \in 1..Len(zone) : EntryFrame(zone', i) = EntryFrame(zone, i)
       /\ Len(zone') = Len(zone) + 1 =>
            /\ zone'[Len(zone')].RawLine = last'.origLine
            /\ zone'[Len(zone')].SourceFile = last'.file
      ]_vars

\* the entry of an included file between an entry created before the
\* $INCLUDE line and one created after it
C9_Witness ==
    /\ Len(zone) = 3
    /\ zone[1].SourceFile = MainFile
    /\ zone[2].SourceFile = IncFile
    /\ zone[3].SourceFile = MainFile
    /\ fs[MainFile].lines[2] = "$INCLUDE inc.zone"
    /\ Len(fs[MainFile].lines) = 3

\* C10: a $INCLUDE directive appends one Include entry, carrying the file
\* name it resolved, before the included file is scanned
C10_IncludeEntry ==
    (last.op = "include" /\ ~last.failed) =>
        /\ Len(zone) > 0
        /\ zone[Len(zone)].Type = EntryTypeInclude
        /\ zone[Len(zone)].Include.Filename = Top.file
        /\ zone[Len(zone)].RawLine = last.origLine

\* the included file is open and none of its lines has been read
C10_Witness ==
    /\ last.op = "include"
    /\ ~last.failed
    /\ Len(stack) = 2
    /\ Top.file = IncFile
    /\ Top.lineNum = 0
\* C11: the SourceFile of an entry is the path of the file whose line created
\* it: the path given to the parser for a line of the top-level file, the
\* resolved path of the included file for a line read during an include; no
\* entry has an empty SourceFile
C11_SourceFile ==
    [][/\ Len(zone') = Len(zone) + 1 =>
            /\ zone'[Len(zone')].SourceFile = Top.file
            /\ Len(stack) = 1 => zone'[Len(zone')].SourceFile = file
            /\ Len(stack) > 1 =>
                 zone'[Len(zone')].SourceFile = IncludePath("inc.zone", stack[1].file)
       /\ \A i \in 1..Len(zone') : zone'[i].SourceFile # ""
      ]_vars

\* a directive entry and a record entry created by lines of the included
\* file, after an entry of the top-level file, the include still being open
C11_Witness ==
    /\ Len(stack) = 2
    /\ Len(zone) = 3
    /\ zone[1].SourceFile = file
    /\ zone[2].SourceFile = IncFile
    /\ zone[2].Type = EntryTypeTTL
    /\ zone[3].SourceFile = IncFile
    /\ zone[3].Type = EntryTypeRecord
\* the fields of a $GENERATE line from its type on, by the grammar
\* $GENERATE range owner [class] type rdata...
GenerateFromType(parts) ==
    IF Len(parts) >= 4 /\ parts[4] = ClassIN THEN SubSeq(parts, 5, Len(parts))
    ELSE SubSeq(parts, 4, Len(parts))

\* parts are the fields of a $GENERATE line of that grammar
IsGenerateLine(parts) ==
    /\ Len(parts) >= 3
    /\ parts[1] = "$GENERATE"
    /\ Len(GenerateFromType(parts)) >= 2
    /\ GenerateFromType(parts)[1] \in knownRRTypes

\* entry e is the Generate entry of the $GENERATE line with fields parts, read
\* with default TTL t and origin o
GenerateCaptured(e, parts, fromType, t, o) ==
    /\ e.Type = EntryTypeGenerate
    /\ e.Generate.Range = parts[2]
    /\ e.Generate.OwnerName = parts[3]
    /\ e.Generate.RRType = fromType[1]
    /\ e.Generate.RData = Join(Tail(fromType), " ")
    /\ e.Generate.TTL = t
    /\ e.Generate.Origin = o

\* C12: a $GENERATE line is accepted with and without the class token, and
\* its Generate entry holds the range, owner template, type and rdata
\* template of the line with the default TTL and the origin in force
C12_GenerateCaptured ==
    (last.op = "directive" /\ IsGenerateLine(Fields(last.line))) =>
        /\ ~last.failed
        /\ Len(zone) > 0
        /\ GenerateCaptured(zone[Len(zone)], Fields(last.line),
                            GenerateFromType(Fields(last.line)), ttl, origin)

\* a $GENERATE line without class, read after $TTL and $ORIGIN
C12_Witness ==
    /\ last.op = "directive"
    /\ IsGenerateLine(Fields(last.line))
    /\ Fields(last.line)[4] # ClassIN
    /\ originFound
    /\ ttl # DefaultTTL
\* the text sub occurs in the text s
Includes(s, sub) ==
    \E i \in 1..(Len(s) - Len(sub) + 1) : SubSeq(s, i, i + Len(sub) - 1) = sub

\* the error text names the file and the line number in it
NamesFileAndLine(text, filename, lineNum) ==
    /\ Includes(text, filename)
    /\ Includes(text, "line " \o Itoa(lineNum) \o ":")

\* C13: the error that Parse returns for a failing record or directive line
\* names the file that contains the line and the number of the line in it,
\* in the top-level file as in an included file
C13_ErrorNamesFileAndLine ==
    (status = "failed" /\ last.failed /\ last.op \in {"record", "directive"}) =>
        NamesFileAndLine(ret.err[1], last.file, last.lineNum)

\* a parse that fails on the second line of the top-level file
C13_Witness ==
    /\ status = "failed"
    /\ last.failed
    /\ last.op \in {"record", "directive"}
    /\ last.depth = 1
    /\ last.lineNum = 2
(***************************************************************************)
(* One record line                                                         *)
(*                                                                         *)
(* The iteration of parseFile on a record line, for the lines of a         *)
(* grammar: every owner form, every type and every number of data fields,  *)
(* TTL fields around the 32-bit limit, type tokens in every case and       *)
(* comments after an A record.  The parser is in the state that            *)
(* "$ORIGIN example.com." and an A record of www leave.                    *)
(***************************************************************************)

PreludeLines == <<"$ORIGIN example.com.", "www\tIN\tA\t10.0.0.1">>

PreludeDirective ==
    handleDirective("", DefaultTTL, <<>>, FALSE, PreludeLines[1], MainFile,
                    PreludeLines[1])

PreludeRecord ==
    parseRecord(PreludeDirective.origin, PreludeDirective.ttl, PreludeDirective.zone,
                PreludeLines[2], Nil, PreludeLines[2], MainFile)

\* the fields before the type: owner, TTL and class, each present or not
OwnerForms == {"www\t", "www\tIN\t", "www\t600\tIN\t", "mail\t600\t", "\tIN\t", "\t"}

\* data that each type accepts
FullData ==
    [A |-> <<"10.0.0.9">>,
     AAAA |-> <<"2001:db8::1">>,
     CNAME |-> <<"www">>,
     MX |-> <<"10", "mail">>,
     TXT |-> <<"\"v=1\"">>,
     NS |-> <<"ns1">>,
     SOA |-> <<"ns1", "adm", "1", "2", "3", "4", "5">>,
     PTR |-> <<"www">>,
     SRV |-> <<"1", "2", "80", "www">>,
     CAA |-> <<"0", "issue", "\"ca.example\"">>,
     HINFO |-> <<"\"PC\"", "\"Linux\"">>,
     NAPTR |-> <<"1", "2", "\"u\"", "\"sip\"", "\"!x!y!\"", "www">>,
     SPF |-> <<"\"v=spf1\"">>]

\* the line of a type after the fields form, with the first k of its data
LineWith(form, t, k) ==
    form \o t \o (IF k = 0 THEN "" ELSE "\t" \o Join(SubSeq(FullData[t], 1, k), "\t"))

FieldLines ==
    {LineWith(x[1], x[2], x[3]) :
        x \in {y \in OwnerForms \X knownRRTypes \X (0..7) : y[3] <= Len(FullData[y[2]])}}
      \cup {"www\tIN\tMX\t\"10 mail\"", "www\tIN\tSOA\tns1 adm ( 1 2 3 4 )"}

TTLTokens == {"0", "600", "007", "4294967295", "4294967296", "99999999999"}

TTLLines ==
    {x[1] \o x[2] \o "\t" \o x[3] :
        x \in {"www\t", "\t"} \X TTLTokens
                \X {"IN\tA\t10.0.0.9", "A\t10.0.0.9", "IN\tMX\t10 mail",
                    "MX\t10 mail", "TXT\t\"x\""}}

CaseLines ==
    {x[1] \o x[2] :
        x \in {"www\t", "www\tIN\t", "www\t600\tin\t", "\tIN\t"}
                \X {"a\t10.0.0.9", "Mx\t10 mail", "mx\t10 mail", "txt\t\"x\"",
                    "cName\twww", "aaaa\t2001:db8::1"}}

CommentLines ==
    {x[1] \o x[2] :
        x \in {"www\tIN\tA\t10.0.0.9", "mail\tA\t10.0.0.8", "\t600\tIN\tA\t10.0.0.7"}
                \X {"", " ;inaddr", " ; INADDR ", " ;In-Addr", "\t;\tin-addr\t",
                    ";inaddr", " ; inaddr please", " ;no inaddr", " ;in_addr",
                    " ; ;inaddr", " ;", " ; in addr", " ;inaddr ;x", " ;inaddr."}}

GrammarLines == FieldLines \cup TTLLines \cup CaseLines \cup CommentLines

\* the parser after the lines of the prelude
InitRecord ==
    /\ file = MainFile
    /\ origin = PreludeDirective.origin
    /\ ttl = PreludeDirective.ttl
    /\ zone = PreludeRecord.zone
    /\ originFound = PreludeDirective.originFound
    /\ metadata = [Origin |-> "", TTL |-> DefaultTTL]
    /\ stack = <<[file |-> MainFile, lineNum |-> Len(PreludeLines),
                  currentName |-> PreludeRecord.currentName]>>
    /\ fs = [f \in Files |->
                [lines |-> IF f = MainFile THEN PreludeLines ELSE <<>>,
                 complete |-> FALSE]]
    /\ status = "scanning"
    /\ ret = [zone |-> Nil, metadata |-> ZeroMetadata, err |-> NoError]
    /\ open = <<MainFile>>
    /\ gen = NoGen
    /\ arpa = NoArpa
    /\ last = NoLast

\* an iteration of parseFile on a line of the grammar
GrammarLine ==
    \E l \in GrammarLines :
        /\ status = "scanning"
        /\ Top.lineNum = Len(PreludeLines)
        /\ RecordIteration(<<l>>, Continued(<<l>>, LineAt(<<l>>, 0)))

NextRecord == GrammarLine

SpecRecord == InitRecord /\ [][NextRecord]_vars

\* the number of data fields that each type requires
RequiredFields ==
    [A |-> 1, AAAA |-> 1, CNAME |-> 1, MX |-> 2, TXT |-> 1, NS |-> 1, SOA |-> 7,
     PTR |-> 1, SRV |-> 4, CAA |-> 3, HINFO |-> 2, NAPTR |-> 6, SPF |-> 1]

\* the fields from the type on are a known type with fewer data fields than
\* the type requires
LacksData(ft) ==
    /\ ft # <<>>
    /\ ft[1] \in knownRRTypes
    /\ Len(ft) - 1 < RequiredFields[ft[1]]

\* the fields of iteration l from the type on
FromTypeOf(fields) == FromType(fields, TTLField(fields))

\* no entry of old has fewer or other typed records in new, and new has no
\* typed record that old has not
SameTyped(old, new) ==
    /\ Len(new) >= Len(old)
    /\ \A i \in 1..Len(new) :
         new[i].Type = EntryTypeRecord =>
            IF i <= Len(old) THEN new[i].HostRecord.Records = old[i].HostRecord.Records
            ELSE TypedCount(new, i) = 0

\* C14: a record line of a known type with fewer data fields than the type
\* requires (A 1, AAAA 1, CNAME 1, MX 2, TXT 1, NS 1, SOA 7, PTR 1, SRV 4,
\* CAA 3, HINFO 2, NAPTR 6, SPF 1) is a fatal error, and no typed record is
\* added for it
C14_MissingDataFatal ==
    [][(last'.op = "record" /\ LacksData(FromTypeOf(FieldsOf(last')))) =>
            /\ last'.failed
            /\ status' = "failed"
            /\ SameTyped(zone, zone')
      ]_vars

\* an SPF line without data has been read and accepted
C14_Witness ==
    /\ last.op = "record"
    /\ LacksData(FromTypeOf(LastFields))
    /\ FromTypeOf(LastFields)[1] = "SPF"
    /\ ~last.failed
\* s is a decimal numeral
IsNumeral(s) == s # "" /\ AllDigits(s, 1)

\* the value of the numeral s is at most 4294967295
InTTLRange(s) == NumeralLeq(StripZeros(s), "4294967295")

\* the TTL field of the fields is a numeral above the range of a TTL
TTLOverflows(fields) == TTLField(fields) # "" /\ ~InTTLRange(TTLField(fields))

\* every TTL of the typed records added is the value of a numeral field in
\* range, or the default t
TTLFromLine(fields, t, added) ==
    \A r \in added :
        \/ r.TTL = t
        \/ \E k \in 1..Len(fields) :
              IsNumeral(fields[k]) /\ InTTLRange(fields[k]) /\ r.TTL = StripZeros(fields[k])

\* C15: a record line whose TTL field is a numeral above 4294967295 is a
\* fatal parse error, whatever class and type follow it; the TTL of every
\* record stored is the value of a field of its line in 0..4294967295 or
\* the default TTL of the parser
C15_TTLRange ==
    [][/\ (last'.op = "record" /\ TTLOverflows(FieldsOf(last'))) =>
            (last'.failed /\ status' = "failed")
       /\ (last'.op = "record" /\ last'.resolved /\ ~last'.failed) =>
            TTLFromLine(FieldsOf(last'), ttl,
                        NewTyped(RecordsOf(zone, last'.qualifiedHostname),
                                 RecordsOf(zone', last'.qualifiedHostname)))
      ]_vars

\* a line with an owner and a TTL field above the range has been accepted
C15_Witness ==
    /\ last.op = "record"
    /\ ~StartsBlank(last.origLine)
    /\ TTLOverflows(LastFields)
    /\ ~last.failed
    /\ status = "scanning"
UpperCh(c) ==
    CASE c = "a" -> "A" [] c = "b" -> "B" [] c = "c" -> "C" [] c = "d" -> "D"
      [] c = "e" -> "E" [] c = "f" -> "F" [] c = "g" -> "G" [] c = "h" -> "H"
      [] c = "i" -> "I" [] c = "j" -> "J" [] c = "k" -> "K" [] c = "l" -> "L"
      [] c = "m" -> "M" [] c = "n" -> "N" [] c = "o" -> "O" [] c = "p" -> "P"
      [] c = "q" -> "Q" [] c = "r" -> "R" [] c = "s" -> "S" [] c = "t" -> "T"
      [] c = "u" -> "U" [] c = "v" -> "V" [] c = "w" -> "W" [] c = "x" -> "X"
      [] c = "y" -> "Y" [] c = "z" -> "Z" [] OTHER -> c

RECURSIVE ToUpper(_)
ToUpper(s) == IF s = "" THEN "" ELSE UpperCh(Ch(s, 1)) \o ToUpper(Tail(s))

\* the fields from the type on start with a known type in lower or mixed case
CaseVariant(ft) ==
    /\ ft # <<>>
    /\ ft[1] \notin knownRRTypes
    /\ ToUpper(ft[1]) \in knownRRTypes

\* the tokens with the type, first of the last n of them, in upper case
WithUpperType(toks, n) == [toks EXCEPT ![Len(toks) - n + 1] = ToUpper(@)]

\* what parseRecord does with the line of iteration l when its type, first
\* of the last n tokens, is spelled in upper case
UpperSpelling(l, pl, n, o, t, z) ==
    RecordOfTokens([origin |-> o, ttl |-> t, zone |-> z, line |-> l.line,
                    currentName |-> l.prevName, origLine |-> l.origLine,
                    sourceFile |-> l.file, comment |-> pl.comment],
                   WithUpperType(tokenize(pl.cleanLine), n))

\* iteration l has done what the upper-case spelling u does
SameAsSpelling(l, z, u) == l.failed = (u.err # NoError) /\ z = u.zone

\* C16: a record line whose type is a known type written in lower or mixed
\* case is treated as the line with the type in upper case: accepted when
\* that line is, with the same typed record
C16_TypeAnyCase ==
    [][(last'.op = "record" /\ CaseVariant(FromTypeOf(FieldsOf(last')))) =>
            SameAsSpelling(last', zone',
                           UpperSpelling(last', parseLineWithComments(last'.line),
                                         Len(FromTypeOf(FieldsOf(last'))),
                                         origin, ttl, zone))
      ]_vars

\* the line "www IN Mx 10 mail" has been read and rejected
C16_Witness ==
    /\ last.op = "record"
    /\ CaseVariant(FromTypeOf(LastFields))
    /\ FromTypeOf(LastFields) = <<"Mx", "10", "mail">>
    /\ last.failed
    /\ status = "failed"
RECURSIVE AfterSemicolon(_)
\* the text of a line without quotes after its first semicolon, "" when it
\* has none
AfterSemicolon(s) ==
    IF s = "" THEN ""
    ELSE IF Ch(s, 1) = ";" THEN Tail(s)
    ELSE AfterSemicolon(Tail(s))

\* the comment c, trimmed and in lower case, asks for a reverse record
AsksInaddr(c) == ToLower(TrimSpace(c)) \in {"inaddr", "in-addr"}

\* every record added has the flag, and one is added
FlagOfNew(added, flag) == added # {} /\ \A r \in added : r.Inaddr = flag

\* C17: the Inaddr flag of an A record is true exactly when the comment of
\* its line, trimmed and lower-cased, is "inaddr" or "in-addr"; no comment
\* or any other comment leaves it false
C17_InaddrFlag ==
    [][(/\ last'.op = "record"
        /\ ~last'.failed
        /\ last'.resolved
        /\ FromTypeOf(FieldsOf(last')) # <<>>
        /\ FromTypeOf(FieldsOf(last'))[1] = "A") =>
            FlagOfNew(NewTyped(RecordsOf(zone, last'.qualifiedHostname),
                               RecordsOf(zone', last'.qualifiedHostname)),
                      AsksInaddr(AfterSemicolon(last'.line)))
      ]_vars

\* an A record with the comment " INADDR " has the flag, after one with
\* no comment that has not
C17_Witness ==
    /\ last.op = "record"
    /\ ~last.failed
    /\ last.origLine = "www\tIN\tA\t10.0.0.9 ; INADDR "
    /\ RecordsOf(zone, "www.example.com.")["A"][1].Inaddr = FALSE
    /\ RecordsOf(zone, "www.example.com.")["A"][2].Inaddr = TRUE
\* the files of the calls of parseFile that are active, outermost first
IncludeChain == [i \in 1..Len(stack) |-> stack[i].file]

\* C19: every file opened is closed on every exit path of the parseFile call
\* that opened it, on success and on error; an included file is closed
\* before the loop of the including file goes on; the files open at any
\* moment are those of the current chain of nested includes, and no file is
\* open once Parse has returned
C19_FilesClosed ==
    /\ open = IncludeChain
    /\ status \in {"done", "failed"} => open = <<>>

\* a record line of an included file has failed and Parse has returned
\* with both files closed
C19_Witness ==
    /\ status = "failed"
    /\ last.op = "record"
    /\ last.failed
    /\ last.depth = 2
    /\ open = <<>>
(***************************************************************************)
(* Includes without end                                                    *)
(*                                                                         *)
(* handleDirective calls parseFile for every $INCLUDE and keeps no record  *)
(* of the files being parsed, so a file that includes itself, or two that  *)
(* include each other, are descended into again and again.  Every level    *)
(* holds a file open and a frame of parseFile and handleDirective on the   *)
(* stack of the goroutine; the descent ends when the process runs out of   *)
(* one of the two.  MaxDepth stands for the depth at which that happens.   *)
(***************************************************************************)

\* the error of os.Open when the process has no file descriptor left
TooManyOpen(filename) ==
    Errorf("error opening file " \o filename \o ": open " \o filename
             \o ": too many open files")

\* the $INCLUDE at the depth where a resource runs out: os.Open fails and
\* the error is returned through every call, or the stack of the goroutine
\* passes its limit and the runtime stops the process
ExhaustedEffect(nl, includeFile) ==
    /\ includeFile \in Files
    /\ Read(nl)
    /\ UNCHANGED <<file, gen, arpa, origin, ttl, zone, originFound>>
    /\ \/ /\ Note("include", nl,
                  RecordReturn(TooManyOpen(includeFile), zone, Top.currentName))
          /\ Abort(Append(Advance(stack, nl), NewFrame(includeFile)),
                   TooManyOpen(includeFile))
       \/ /\ Note("include", nl, RecordReturn(NoError, zone, Top.currentName))
          /\ stack' = Advance(stack, nl)
          /\ status' = "crashed"
          /\ UNCHANGED <<metadata, ret, open>>

\* an iteration of parseFile on $INCLUDE at that depth
IncludeExhausts ==
    \E ext \in Chunks \cup {<<>>} :
        /\ CanRead(ext)
        /\ Len(stack) = MaxDepth
        /\ IsInclude(NextLine(ext))
        /\ ReadsToEnd(ext, NextLine(ext))
        /\ ExhaustedEffect(NextLine(ext), IncludePath(NextLine(ext).parts[2], Top.file))

NextDeep ==
    \/ ParseCall
    \/ SkipLine
    \/ RecordLine
    \/ DirectiveLine
    \/ IncludeLine
    \/ EndOfFile
    \/ IncludeExhausts

\* Parse runs on its goroutine until it returns or the process stops
SpecDeep == Init /\ [][NextDeep]_vars /\ WF_vars(NextDeep)

\* C18: Parse always terminates and returns the result or an error, also
\* when the $INCLUDE directives of the files name themselves or each other:
\* at every moment Parse is running or has returned, and the process is
\* never stopped with Parse inside a descent
C18_ParseReturns == status \in {"new", "scanning", "done", "failed"}

\* a file that includes itself has been descended into until the process
\* was stopped, and Parse has not returned
C18_Witness ==
    /\ status = "crashed"
    /\ Len(stack) = MaxDepth
    /\ \A i \in 2..Len(stack) : stack[i].file = IncFile
    /\ fs[IncFile].lines = <<"$INCLUDE inc.zone">>
(***************************************************************************)
(* dhcpgen                                                                 *)
(*                                                                         *)
(* generateStatements for a range of addresses.  A uint32 address is kept  *)
(* as its upper 24 bits, the /24 network, and its last octet.              *)
(***************************************************************************)

\* the number of /24 networks of the range of addresses
MaxNetworks == 3

IPv4(net, oct) == [net |-> net, oct |-> oct]

\* the number of values of the upper 24 bits of a uint32
Networks24 == 256 * 256 * 256

\* a <= b for two uint32 addresses
LeqIP(a, b) == a.net < b.net \/ (a.net = b.net /\ a.oct <= b.oct)

MinIP(a, b) == IF LeqIP(a, b) THEN a ELSE b

\* the first three parts of uint32ToIP(ip).String()
Dotted3(net) ==
    Itoa(net \div 65536) \o "." \o Itoa((net \div 256) % 256) \o "." \o Itoa(net % 256)

IPString(ip) == Dotted3(ip.net) \o "." \o Itoa(ip.oct)

\* the %d verb
Sprintd(n) == IF n < 0 THEN "-" \o Itoa(0 - n) ELSE Itoa(n)

RECURSIVE ZeroPad(_, _)
\* the %0*d verb for a number that is not negative
ZeroPad(s, width) == IF Len(s) >= width THEN s ELSE ZeroPad("0" \o s, width)

getFieldWidth(maxValue) == IF maxValue = 0 THEN 1 ELSE Len(Itoa(maxValue))

fqdn(host, domain) ==
    IF HasSuffix(host, ".") THEN host
    ELSE IF domain = "" THEN host
    ELSE IF HasSuffix(host \o "." \o domain, ".") THEN host \o "." \o domain
    ELSE host \o "." \o domain \o "."

\* the count of the loop over the octets startOctet..endOctet that skips 0
\* and 255
ValidOctets(startOctet, endOctet) ==
    Cardinality({o \in startOctet..endOctet : o # 0 /\ o # 255})

\* countValidHosts: the count of the loop over the addresses startIP..endIP,
\* for a range that ends below 255.255.255.255
countValidHosts(startIP, endIP) ==
    IF ~LeqIP(startIP, endIP) THEN 0
    ELSE Cardinality({ip \in {IPv4(x[1], x[2]) : x \in (startIP.net..endIP.net) \X (1..254)} :
                         LeqIP(startIP, ip) /\ LeqIP(ip, endIP)})

makeHostPattern(host, domain, offset, width) ==
    fqdn(host \o "-${" \o Sprintd(offset) \o "," \o Sprintd(width) \o ",d}", domain)

makeHostName(host, width, offset) == host \o "-" \o ZeroPad(Sprintd(offset), width)

\* the statements of generateForNetwork for the octets rangeStart..rangeEnd:
\* the A directive and, with -mx, the MX directive
RangeStatements(p, rangeStart, rangeEnd, hostOffset) ==
    <<[kind |-> "A", rangeStart |-> rangeStart, rangeEnd |-> rangeEnd,
       offset |-> hostOffset, width |-> p.width, net |-> p.net,
       text |-> "$GENERATE " \o Sprintd(rangeStart) \o "-" \o Sprintd(rangeEnd) \o " "
                  \o makeHostPattern(p.hostName, p.origin, hostOffset, p.width)
                  \o " IN A " \o Dotted3(p.net) \o ".$"]>>
    \o IF p.mx = "" THEN <<>>
       ELSE <<[kind |-> "MX", rangeStart |-> rangeStart, rangeEnd |-> rangeEnd,
               offset |-> hostOffset, width |-> p.width, net |-> p.net,
               text |-> "$GENERATE " \o Sprintd(rangeStart) \o "-" \o Sprintd(rangeEnd)
                          \o " " \o makeHostPattern(p.hostName, p.origin, hostOffset, p.width)
                          \o " IN MX \"" \o Sprintd(p.mxPri) \o " "
                          \o fqdn(p.mx, p.origin) \o "\""]>>

\* an inner loop that stops at the end of the network's range only
RangeEnd_ToEndOctet(octet, endOctet) == endOctet

\* the inner loop of generateForNetwork: the last octet of the run of valid
\* octets that starts at octet
RangeEnd(octet, endOctet) ==
    (CHOOSE o \in (octet + 1)..(endOctet + 1) :
        /\ o > endOctet \/ o = 0 \/ o = 255
        /\ \A q \in (octet + 1)..(o - 1) : q <= endOctet /\ q # 0 /\ q # 255) - 1

RECURSIVE GenerateFrom(_, _, _, _)
\* the outer loop of generateForNetwork from octet on
GenerateFrom(p, octet, endOctet, hostOffset) ==
    IF octet > endOctet THEN <<>>
    ELSE IF octet = 0 \/ octet = 255 THEN GenerateFrom(p, octet + 1, endOctet, hostOffset)
    ELSE RangeStatements(p, octet, RangeEnd(octet, endOctet), hostOffset)
           \o GenerateFrom(p, RangeEnd(octet, endOctet) + 1, endOctet,
                           hostOffset + (RangeEnd(octet, endOctet) - octet + 1))

\* the comment of generateForNetwork
NetworkComment(n, hostName, width, validHosts) ==
    [kind |-> "comment", first |-> n.hostStart, last |-> n.hostStart + validHosts - 1,
     hosts |-> validHosts, net |-> n.baseIP.net,
     text |-> "\n; " \o IPString(IPv4(n.baseIP.net, n.startOctet)) \o "-"
                \o IPString(IPv4(n.baseIP.net, n.endOctet)) \o " => "
                \o makeHostName(hostName, width, n.hostStart) \o " to "
                \o makeHostName(hostName, width, n.hostStart + validHosts - 1) \o ", "
                \o Sprintd(validHosts) \o " hosts"]

generateForNetwork(n, hostName, domain, width, comments, mx, mxPri) ==
    (IF comments /\ ValidOctets(n.startOctet, n.endOctet) > 0
     THEN <<NetworkComment(n, hostName, width, ValidOctets(n.startOctet, n.endOctet))>>
     ELSE <<>>)
    \o GenerateFrom([hostName |-> hostName, origin |-> domain, width |-> width,
                     mx |-> mx, mxPri |-> mxPri, net |-> n.baseIP.net],
                    n.startOctet, n.endOctet, n.hostStart)

RECURSIVE NetworksFrom(_, _, _)
\* the loop of getNetworksInRange from the address current on
NetworksFrom(current, endIP, hostOffset) ==
    IF ~LeqIP(current, endIP) THEN <<>>
    ELSE (IF ValidOctets(current.oct, MinIP(IPv4(current.net, 255), endIP).oct) > 0
          THEN <<[baseIP |-> IPv4(current.net, 0),
                  startOctet |-> current.oct,
                  endOctet |-> MinIP(IPv4(current.net, 255), endIP).oct,
                  hostStart |-> hostOffset]>>
          ELSE <<>>)
         \o NetworksFrom(IPv4((current.net + 1) % Networks24, 0), endIP,
                         hostOffset
                           + ValidOctets(current.oct,
                                         MinIP(IPv4(current.net, 255), endIP).oct))

getNetworksInRange(startIP, endIP, hostStart) == NetworksFrom(startIP, endIP, hostStart)

\* the arguments of the runs: the addresses of MaxNetworks networks from
\* 10.1.50.0 on with a last octet at or next to an end of the network
GenAddresses ==
    {IPv4((10 * 256 + 1) * 256 + 50 + k, o) :
        k \in 0..(MaxNetworks - 1), o \in {0, 1, 10, 250, 254, 255}}

GenHostStarts == {0 - 1, 0, 5, 100}

HostName == "dhcp"

GenArgs ==
    [startIP : GenAddresses, endIP : GenAddresses, hostStart : GenHostStarts,
     comments : BOOLEAN, mx : {"", "mail"}]

parserVars ==
    <<file, origin, ttl, zone, originFound, metadata, stack, fs, status, ret, open, last>>

\* dhcpgen does not run mkarpa
genIdle == <<parserVars, arpa>>

InitGen ==
    /\ file = MainFile
    /\ origin = ""
    /\ ttl = DefaultTTL
    /\ zone = <<>>
    /\ originFound = FALSE
    /\ metadata = [Origin |-> "", TTL |-> DefaultTTL]
    /\ stack = <<>>
    /\ fs = [f \in Files |-> [lines |-> <<>>, complete |-> FALSE]]
    /\ status = "new"
    /\ ret = [zone |-> Nil, metadata |-> ZeroMetadata, err |-> NoError]
    /\ open = <<>>
    /\ last = NoLast
    /\ arpa = NoArpa
    /\ gen \in {[pc |-> "call", width |-> 0, networks |-> <<>>, idx |-> 0,
                 statements |-> <<>>, err |-> NoError] @@ a : a \in GenArgs}

GenFail(msg) == [gen EXCEPT !.pc = "done", !.statements = Nil, !.err = Errorf(msg)]

\* the header comment
GenHeader(totalHosts) ==
    [kind |-> "header",
     text |-> "; Creating $GENERATE directives for addresses " \o IPString(gen.startIP)
                \o " through " \o IPString(gen.endIP) \o "\n; " \o Sprintd(totalHosts)
                \o " hosts total, starting from host " \o Sprintd(gen.hostStart)]

GenStarted(totalHosts) ==
    IF totalHosts = 0
    THEN GenFail("no valid host addresses in range " \o IPString(gen.startIP) \o " to "
                   \o IPString(gen.endIP))
    ELSE [gen EXCEPT !.pc = "networks",
                     !.width = getFieldWidth(gen.hostStart + totalHosts - 1),
                     !.statements = IF gen.comments THEN <<GenHeader(totalHosts)>>
                                    ELSE <<>>,
                     !.networks = getNetworksInRange(gen.startIP, gen.endIP,
                                                     gen.hostStart),
                     !.idx = 1]

\* generateStatements up to its loop over the networks
GenCall ==
    /\ gen.pc = "call"
    /\ gen' = IF ~LeqIP(gen.startIP, gen.endIP)
              THEN GenFail("start IP must be less than or equal to end IP")
              ELSE IF gen.hostStart < 0
              THEN GenFail("hostStart cannot be negative: " \o Sprintd(gen.hostStart))
              ELSE GenStarted(countValidHosts(gen.startIP, gen.endIP))
    /\ UNCHANGED genIdle

\* an iteration of the loop of generateStatements over the networks
GenNetwork ==
    /\ gen.pc = "networks"
    /\ gen.idx <= Len(gen.networks)
    /\ gen' = [gen EXCEPT
                 !.statements = @ \o generateForNetwork(gen.networks[gen.idx], HostName,
                                                        "", gen.width, gen.comments,
                                                        gen.mx, 10),
                 !.idx = @ + 1]
    /\ UNCHANGED genIdle

\* generateStatements returns the statements
GenReturn ==
    /\ gen.pc = "networks"
    /\ gen.idx > Len(gen.networks)
    /\ gen' = [gen EXCEPT !.pc = "done"]
    /\ UNCHANGED genIdle

NextGen ==
    \/ GenCall
    \/ GenNetwork
    \/ GenReturn

SpecGen == InitGen /\ [][NextGen]_vars

\* the number of usable last octets, 1..254, below o
UsableBelow(o) == IF o = 0 THEN 0 ELSE IF o > 254 THEN 254 ELSE o - 1

\* the number of usable addresses from startIP up to, not including, the
\* address with last octet oct of network net
RankOf(startIP, net, oct) ==
    (net - startIP.net) * 254 + UsableBelow(oct) - UsableBelow(startIP.oct)

\* the host number that the expansion of directive d gives to the address
\* with last octet i: the iterator value plus the offset
HostNumber(d, i) == i + d.offset

\* the usable addresses of the range, as network and last octet
UsableAddresses(startIP, endIP) ==
    {x \in (startIP.net..endIP.net) \X (1..254) :
        LeqIP(startIP, IPv4(x[1], x[2])) /\ LeqIP(IPv4(x[1], x[2]), endIP)}

\* the A directives of the statements s
ADirectives(s) == {s[k] : k \in {j \in 1..Len(s) : s[j].kind = "A"}}

\* the expansion of the A directives ds numbers the usable addresses of
\* the range from hostStart on, in ascending order of address
NumbersInOrder(ds, startIP, endIP, hostStart) ==
    /\ \A d \in ds : \A i \in d.rangeStart..d.rangeEnd :
           HostNumber(d, i) = hostStart + RankOf(startIP, d.net, i)
    /\ \A x \in UsableAddresses(startIP, endIP) :
           \E d \in ds : d.net = x[1] /\ d.rangeStart <= x[2] /\ x[2] <= d.rangeEnd

\* every comment of the statements s shows the first and the last host
\* number of the directive that follows it
CommentsShowNumbers(s) ==
    \A k \in 1..Len(s) :
        s[k].kind = "comment" =>
            /\ k < Len(s)
            /\ s[k + 1].kind = "A"
            /\ s[k].first = HostNumber(s[k + 1], s[k + 1].rangeStart)
            /\ s[k].last = HostNumber(s[k + 1], s[k + 1].rangeEnd)

\* C20: for every valid range and every hoststart >= 0 the expansion of the
\* emitted $GENERATE A directives, host number = iterator value + offset,
\* gives the usable addresses of the range, in ascending order, the host
\* numbers hoststart, hoststart + 1, ... without gap or repetition, also
\* across /24 boundaries, and the -comments lines show these numbers
C20_SequentialNumbers ==
    (gen.pc = "done" /\ gen.err = NoError) =>
        /\ NumbersInOrder(ADirectives(gen.statements), gen.startIP, gen.endIP,
                          gen.hostStart)
        /\ CommentsShowNumbers(gen.statements)

\* the range 10.1.50.10 to 10.1.51.10 from host 0: the directives 10-254
\* with offset 0 and 1-10 with offset 245 give 246..254 to two addresses
C20_Witness ==
    /\ gen.pc = "done"
    /\ gen.err = NoError
    /\ gen.hostStart = 0
    /\ gen.comments
    /\ \E d1, d2 \in ADirectives(gen.statements) :
          /\ d1.net + 1 = d2.net
          /\ d1.rangeStart = 10
          /\ d2.rangeStart = 1
          /\ HostNumber(d1, d1.rangeEnd) >= HostNumber(d2, d2.rangeStart)
\* the A directives of the statements s in the order of their emission
ADirectiveSeq(s) == SelectSeq(s, LAMBDA x : x.kind = "A")

\* the addresses that the expansion of directive d gives records to: the
\* pattern a.b.c.$ with the iterator values of the range of d
Covered(d) == {<<d.net, i>> : i \in d.rangeStart..d.rangeEnd}

\* the directives ds cover exactly the addresses in usable, each once
CoverExactlyOnce(ds, usable) ==
    /\ UNION {Covered(ds[k]) : k \in 1..Len(ds)} = usable
    /\ \A j, k \in 1..Len(ds) : j # k => Covered(ds[j]) \cap Covered(ds[k]) = {}

\* the iterator of directive d replaces the last octet of one /24 network
WithinOneNetwork(d) ==
    /\ 0 <= d.rangeStart
    /\ d.rangeStart <= d.rangeEnd
    /\ d.rangeEnd <= 255
    /\ d.text = "$GENERATE " \o Itoa(d.rangeStart) \o "-" \o Itoa(d.rangeEnd) \o " "
                  \o HostName \o "-${" \o Itoa(d.offset) \o "," \o Itoa(d.width) \o ",d}"
                  \o " IN A " \o Dotted3(d.net) \o ".$"

MaxARecords == 4

RECURSIVE DigitsValue(_, _)
\* the value of the first n characters of the digit string s
DigitsValue(s, n) ==
    IF n = 0 THEN 0 ELSE DigitsValue(s, n - 1) * 10 + DigitVal(Ch(s, n))

\* strconv.Atoi(s) for a string of fewer than ten characters
Atoi(s) ==
    IF s = "" \/ \E i \in 1..Len(s) : ~IsDigit(Ch(s, i)) /\ ~(i = 1 /\ Ch(s, i) \in {"+", "-"})
    THEN [ok |-> FALSE, val |-> 0]
    ELSE IF Ch(s, 1) \in {"+", "-"}
    THEN IF Len(s) = 1 THEN [ok |-> FALSE, val |-> 0]
         ELSE [ok |-> TRUE,
               val |-> IF Ch(s, 1) = "-" THEN 0 - DigitsValue(Tail(s), Len(s) - 1)
                       ELSE DigitsValue(Tail(s), Len(s) - 1)]
    ELSE [ok |-> TRUE, val |-> DigitsValue(s, Len(s))]

OriginOfParts(parts) ==
    IF Len(parts) # 4 THEN ""
    ELSE parts[3] \o "." \o parts[2] \o "." \o parts[1] \o ".in-addr.arpa."

createReverseOrigin(ip) == OriginOfParts(Split(ip, "."))

\* the reverse zone that getReverseZone creates
NewReverseZone(zoneOrigin) == [origin |-> zoneOrigin, records |-> <<>>]

\* getReverseZone(ip) followed by the append of a PTR record to the zone:
\* the map reverseZones and the slice reverseZoneOrder after it
WithRecord(a, zoneOrigin, rec) ==
    IF zoneOrigin = "" THEN a
    ELSE IF zoneOrigin \in DOMAIN a.reverseZones
    THEN [a EXCEPT !.reverseZones[zoneOrigin].records = Append(@, rec)]
    ELSE [a EXCEPT !.reverseZones =
                       @ @@ (zoneOrigin :> [NewReverseZone(zoneOrigin)
                                               EXCEPT !.records = <<rec>>]),
                   !.reverseZoneOrder = Append(@, zoneOrigin)]

\* the characters of a reverse zone origin in the order of their bytes
OriginBytes == "-.0123456789adinpr"

ByteRank(c) == CHOOSE i \in 1..Len(OriginBytes) : Ch(OriginBytes, i) = c

RECURSIVE StringLessFrom(_, _, _)
StringLessFrom(a, b, i) ==
    IF i > Len(b) THEN FALSE
    ELSE IF i > Len(a) THEN TRUE
    ELSE IF Ch(a, i) # Ch(b, i) THEN ByteRank(Ch(a, i)) < ByteRank(Ch(b, i))
    ELSE StringLessFrom(a, b, i + 1)

\* a < b for two strings
StringLess(a, b) == StringLessFrom(a, b, 1)

\* the comparison of getSortedOrigins, on the parts of the two origins
PartsLess(originI, originJ, partsI, partsJ) ==
    IF Len(partsI) >= 1 /\ Len(partsJ) >= 1
       /\ Atoi(partsI[1]).ok /\ Atoi(partsJ[1]).ok
    THEN Atoi(partsI[1]).val < Atoi(partsJ[1]).val
    ELSE StringLess(originI, originJ)

OriginLess(originI, originJ) ==
    PartsLess(originI, originJ, Split(originI, "."), Split(originJ, "."))

\* the orders in which the range over the map reverseZones gives its keys
MapOrders(keys) ==
    {s \in [1..Cardinality(keys) -> keys] : \A i, j \in DOMAIN s : i # j => s[i] # s[j]}

\* getSortedOrigins: sort.Slice of up to twelve origins is an insertion
\* sort, which keeps the order that the map gave to origins that the
\* comparison does not tell apart
getSortedOrigins(keys) ==
    {s \in MapOrders(keys) : \A i, j \in DOMAIN s : i < j => ~OriginLess(s[j], s[i])}

RecordLess(recI, recJ) == Atoi(recI.lastOctet).val < Atoi(recJ.lastOctet).val

RECURSIVE InsertRecord(_, _)
\* the insertion of sort.Slice: rec moves left past the records it is less
\* than
InsertRecord(sorted, rec) ==
    IF sorted = <<>> \/ ~RecordLess(rec, sorted[Len(sorted)]) THEN Append(sorted, rec)
    ELSE Append(InsertRecord(SubSeq(sorted, 1, Len(sorted) - 1), rec), sorted[Len(sorted)])

RECURSIVE SortRecords(_, _)
\* sort.Slice of up to twelve records by last octet
SortRecords(records, n) ==
    IF n = 0 THEN <<>> ELSE InsertRecord(SortRecords(records, n - 1), records[n])

\* the lines of generateReverseZone for the zone z
ZoneLines(z, records) ==
    <<"$ORIGIN " \o z.origin>>
    \o [k \in 1..Len(records) |->
           records[k].lastOctet \o "\t\tIN\tPTR\t\t" \o records[k].hostname]

\* the addresses of the A records: five networks that differ in their
\* first, second or third octet, one of them with two hosts
ArpaAddresses ==
    {"10.1.2.5", "10.2.1.5", "10.1.1.5", "9.3.3.7", "192.168.0.9", "10.1.2.1"}

ArpaHost == "www.example.com."

arpaIdle == <<parserVars, gen>>

InitArpa ==
    /\ file = MainFile
    /\ origin = ""
    /\ ttl = DefaultTTL
    /\ zone = <<>>
    /\ originFound = FALSE
    /\ metadata = [Origin |-> "", TTL |-> DefaultTTL]
    /\ stack = <<>>
    /\ fs = [f \in Files |-> [lines |-> <<>>, complete |-> FALSE]]
    /\ status = "new"
    /\ ret = [zone |-> Nil, metadata |-> ZeroMetadata, err |-> NoError]
    /\ open = <<>>
    /\ last = NoLast
    /\ gen = NoGen
    /\ arpa \in {[pc |-> "reading", sortByAddress |-> s, read |-> 0,
                  reverseZones |-> <<>>, reverseZoneOrder |-> <<>>,
                  origins |-> <<>>, idx |-> 0, out |-> <<>>] : s \in BOOLEAN}

\* processHostRecord for a host with one A record
ArpaARecord ==
    /\ arpa.pc = "reading"
    /\ arpa.read < MaxARecords
    /\ \E ip \in ArpaAddresses, inaddr \in BOOLEAN :
          arpa' = [(IF inaddr \/ Len(Split(ip, ".")) # 4 THEN arpa
                    ELSE WithRecord(arpa, createReverseOrigin(ip),
                                    [lastOctet |-> Split(ip, ".")[4],
                                     hostname |-> ArpaHost]))
                     EXCEPT !.read = @ + 1]
    /\ UNCHANGED arpaIdle

\* generateReverseZone up to its loop over the origins
ArpaOrigins ==
    /\ arpa.pc = "reading"
    /\ \E sorted \in getSortedOrigins(DOMAIN arpa.reverseZones) :
          arpa' = [arpa EXCEPT !.pc = "zones",
                               !.origins = IF arpa.sortByAddress THEN sorted
                                           ELSE arpa.reverseZoneOrder,
                               !.idx = 1]
    /\ UNCHANGED arpaIdle

\* an iteration of the loop of generateReverseZone over the origins
ArpaZone ==
    /\ arpa.pc = "zones"
    /\ arpa.idx <= Len(arpa.origins)
    /\ arpa' = [arpa EXCEPT
                  !.reverseZones[arpa.origins[arpa.idx]].records =
                      SortRecords(@, Len(@)),
                  !.out = @ \o ZoneLines(arpa.reverseZones[arpa.origins[arpa.idx]],
                                         SortRecords(arpa.reverseZones[arpa.origins[arpa.idx]].records,
                                                     Len(arpa.reverseZones[arpa.origins[arpa.idx]].records))),
                  !.idx = @ + 1]
    /\ UNCHANGED arpaIdle

\* generateReverseZone returns
ArpaReturn ==
    /\ arpa.pc = "zones"
    /\ arpa.idx > Len(arpa.origins)
    /\ arpa' = [arpa EXCEPT !.pc = "done"]
    /\ UNCHANGED arpaIdle

NextArpa ==
    \/ ArpaARecord
    \/ ArpaOrigins
    \/ ArpaZone
    \/ ArpaReturn

SpecArpa == InitArpa /\ [][NextArpa]_vars
\* the /24 network a.b.c of the reverse zone origin c.b.a.in-addr.arpa.
NetworkOfParts(parts) == <<Atoi(parts[3]).val, Atoi(parts[2]).val, Atoi(parts[1]).val>>

NetworkOf(zoneOrigin) == NetworkOfParts(Split(zoneOrigin, "."))

\* network m is before network n, octet by octet from the first
NetworkBefore(m, n) ==
    \/ m[1] < n[1]
    \/ m[1] = n[1] /\ m[2] < n[2]
    \/ m[1] = n[1] /\ m[2] = n[2] /\ m[3] < n[3]

\* the origins of the $ORIGIN lines of the output, in its order
OriginsOf(out) ==
    [k \in 1..Len(SelectSeq(out, LAMBDA l : HasPrefix(l, "$ORIGIN "))) |->
        SubSeq(SelectSeq(out, LAMBDA l : HasPrefix(l, "$ORIGIN "))[k], 9,
               Len(SelectSeq(out, LAMBDA l : HasPrefix(l, "$ORIGIN "))[k]))]

Ascending(origins) ==
    \A i, j \in 1..Len(origins) :
        i < j => NetworkBefore(NetworkOf(origins[i]), NetworkOf(origins[j]))

\* C22: with -s the reverse zones are written in ascending numerical order
\* of their /24 network a.b.c, compared octet by octet from the first,
\* also when the networks differ in their first or second octet
C22_ZonesAscending ==
    (arpa.pc = "done" /\ arpa.sortByAddress) => Ascending(OriginsOf(arpa.out))

\* mkarpa -s has written the zone of 10.2.1.0/24 before that of 10.1.2.0/24
C22_Witness ==
    /\ arpa.pc = "done"
    /\ arpa.sortByAddress
    /\ OriginsOf(arpa.out) = <<"1.2.10.in-addr.arpa.", "2.1.10.in-addr.arpa.">>
(***************************************************************************)
(* Multi-line records                                                      *)
(*                                                                         *)
(* Parse of a file whose lines are all determined: a head of directives    *)
(* and comments, a record that may go over several lines, and the lines    *)
(* that follow it.                                                         *)
(***************************************************************************)

MultiHeads ==
    { <<"$ORIGIN example.com.">>,
      <<"$TTL 3600", "$ORIGIN example.com.", "; records">> }

\* the three-fragment TXT record of TestParseMultilineRecord
TXTFixture ==
    <<"test\tIN\tTXT\t( \"first part \"", "\t\t  \"second part\"",
      "\t\t  \"third part\" )">>

MultiGroups ==
    { <<"@ IN SOA ns1 adm (", "  1 2 3", "  4 5 )">>,
      <<"@ IN SOA ns1 adm ( ; start of authority", "  1 2 3 4 5 )">>,
      <<"@ IN SOA ns1 adm (", "  1 ; serial", "; refresh and the others", "",
        "  2 3 4 5 ) ; minimum">>,
      <<"@ IN SOA ns1 adm (", "  1 2 3 ; (seconds", "  4 5 )">>,
      TXTFixture,
      <<"www\tIN\tTXT\t\"a(b\"">>,
      <<"www\tIN\tTXT\t( \"a(b\" )">>,
      <<"www\tIN\tTXT\t(", "\"a)b\"", "\"c\" )">>,
      <<"www\tIN\tTXT\t( \"a\" ; first", "  \"b\" )">>,
      <<"www\tIN\tTXT\t( \"a\"", "  b", "", "  \"c\" \"d\" )">>,
      <<"www\tIN\tA\t10.0.0.9">>,
      <<"www\tIN\tA\t10.0.0.9 ; (old address">>,
      <<"www\tIN\tMX\t( 10", "  mail )">>,
      <<"host\tIN\tTXT\t\"text ; with semicolon\"\t; real comment">>,
      <<"www\tIN\tTXT\t\"a;b\" ; note">>,
      <<"www\tIN\tTXT\t\"all ; quoted ; text\"">>,
      <<"www\tIN\tTXT\t\"open ; quote">>,
      <<"www\tIN\tA\t10.0.0.9 ;inaddr ; \"second\"">>,
      <<"www\tIN\tA\t10.0.0.9;">> }

MultiTails ==
    { <<>>,
      <<"mail\tIN\tA\t10.0.0.2">>,
      <<"mail\tIN\tA\t10.0.0.2", "ftp\tIN\tA\t10.0.0.3 ; )">> }

\* the files: a head, a record and a tail
MultiFiles == {h \o g \o t : h \in MultiHeads, g \in MultiGroups, t \in MultiTails}

InitMulti ==
    /\ file = MainFile
    /\ origin = ""
    /\ ttl = DefaultTTL
    /\ zone = <<>>
    /\ originFound = FALSE
    /\ metadata = [Origin |-> "", TTL |-> DefaultTTL]
    /\ stack = <<>>
    /\ fs \in {[f \in Files |-> [lines |-> IF f = MainFile THEN content ELSE <<>>,
                                 complete |-> TRUE]] : content \in MultiFiles}
    /\ status = "new"
    /\ ret = [zone |-> Nil, metadata |-> ZeroMetadata, err |-> NoError]
    /\ open = <<>>
    /\ gen = NoGen
    /\ arpa = NoArpa
    /\ last = NoLast

NextMulti ==
    \/ ParseCall
    \/ SkipLine
    \/ RecordLine
    \/ DirectiveLine
    \/ EndOfFile

SpecMulti == InitMulti /\ [][NextMulti]_vars

RECURSIVE UnquotedCountFrom(_, _, _, _)
\* the number of characters c of the line from position i on that are
\* outside double quotes and before the comment
UnquotedCountFrom(line, c, i, inQuotes) ==
    IF i > Len(line) THEN 0
    ELSE IF Ch(line, i) = "\"" THEN UnquotedCountFrom(line, c, i + 1, ~inQuotes)
    ELSE IF inQuotes THEN UnquotedCountFrom(line, c, i + 1, inQuotes)
    ELSE IF Ch(line, i) = ";" THEN 0
    ELSE (IF Ch(line, i) = c THEN 1 ELSE 0) + UnquotedCountFrom(line, c, i + 1, inQuotes)

UnquotedCount(line, c) == UnquotedCountFrom(line, c, 1, FALSE)

RECURSIVE GroupEndFrom(_, _, _, _)
\* the last line of the record whose lines up to line k hold opens '(' and
\* closes ')' outside quotes and comments
GroupEndFrom(lines, k, opens, closes) ==
    IF opens <= closes \/ k = Len(lines) THEN k
    ELSE GroupEndFrom(lines, k + 1, opens + UnquotedCount(lines[k + 1], "("),
                      closes + UnquotedCount(lines[k + 1], ")"))

\* the last physical line of the record that starts at line n
GroupEnd(lines, n) ==
    GroupEndFrom(lines, n, UnquotedCount(lines[n], "("), UnquotedCount(lines[n], ")"))

\* C23: the continuation reader opens and closes a multi-line record on
\* unquoted parentheses only: an iteration on a record or directive line
\* reads the physical lines up to the one where the unquoted '(' are
\* matched by the unquoted ')', and a parenthesis inside a quoted string or
\* inside a comment neither prolongs nor ends the record
C23_UnquotedParensOnly ==
    [][(status = "scanning" /\ last' # last /\ last'.op \in {"record", "directive"})
         => last'.lineNum = GroupEnd(fs'[Top.file].lines, Top.lineNum + 1)]_vars

\* the one-line A record with '(' in its comment has taken the record line
\* that follows it into its own text
C23_Witness ==
    /\ last.op = "record"
    /\ last.origLine = "www\tIN\tA\t10.0.0.9 ; (old address"
    /\ last.line = "www\tIN\tA\t10.0.0.9 ; (old address mail\tIN\tA\t10.0.0.2"
    /\ last.lineNum = Len(fs[MainFile].lines)
\* the text acc continued by the comment-free text c of the next line:
\* adjacent quoted strings without separator, all else with one space
JoinedWith(acc, c) ==
    IF acc = "" THEN c
    ELSE IF HasSuffix(TrimSpace(acc), "\"") /\ HasPrefix(c, "\"") THEN acc \o c
    ELSE acc \o " " \o c

\* line without its comment and the space around it
CleanOf(line) == parseLineWithComments(TrimSpace(line)).cleanLine

RECURSIVE CleanJoinFrom(_, _, _, _)
CleanJoinFrom(lines, k, e, acc) ==
    IF k > e THEN acc
    ELSE CleanJoinFrom(lines, k + 1, e,
                       IF CleanOf(lines[k]) = "" THEN acc
                       ELSE JoinedWith(acc, CleanOf(lines[k])))

\* the text of the physical lines n..e, each without its comment
CleanGroup(lines, n, e) == CleanJoinFrom(lines, n, e, "")

\* the number of the physical line that the iteration l started on: the
\* lines of a file of MultiFiles differ from each other
FirstLineOf(l) == CHOOSE n \in 1..l.lineNum : fs[l.file].lines[n] = l.origLine

\* C24: in a multi-line record a comment on any physical line, the opening
\* line included, removes only the text of that line after the ';': the
\* tokens that the record is parsed from are the tokens outside comments
\* of every physical line that the record was read from
C24_CommentsPerLine ==
    last.op = "record"
      => tokenize(parseLineWithComments(last.line).cleanLine)
           = tokenize(CleanGroup(fs[last.file].lines, FirstLineOf(last), last.lineNum))

\* the SOA record whose opening line ends with a comment has been read to
\* its closing line and has failed for lack of fields
C24_Witness ==
    /\ last.op = "record"
    /\ last.origLine = "@ IN SOA ns1 adm ( ; start of authority"
    /\ last.line = "@ IN SOA ns1 adm ( ; start of authority 1 2 3 4 5 )"
    /\ tokenize(parseLineWithComments(last.line).cleanLine)
         = <<"@", "IN", "SOA", "ns1", "adm", "(">>
    /\ last.failed
    /\ status = "failed"
\* the text that the reader makes of the physical lines n..e: the opening
\* line, trimmed, and each further line without its comment
ExpectedJoin(lines, n, e) == CleanJoinFrom(lines, n + 1, e, TrimSpace(lines[n]))

\* sub occurs in s
HasSubstring(s, sub) ==
    \E i \in 1..(Len(s) - Len(sub) + 1) : SubSeq(s, i, i + Len(sub) - 1) = sub

\* the TXT records of the host name in zone z
TXTOf(z, name) ==
    IF FindHostRecord(z, name) = 0 THEN <<>>
    ELSE z[FindHostRecord(z, name)].HostRecord.Records["TXT"]

\* one TXT record whose Text contains all the fragments
OneTXTWith(txt, fragments) ==
    /\ Len(txt) = 1
    /\ \A f \in fragments : HasSubstring(txt[1].Text, f)

\* C25: the continuation reader joins a physical line to the accumulated
\* text without separator if the accumulated text, trimmed, ends with '"'
\* and the line without its comment begins with '"', and with exactly one
\* space in every other case; blank lines and comment-only lines of the
\* group contribute nothing.  The three-fragment TXT fixture gives one TXT
\* record whose Text contains all three fragments
C25_JoinRule ==
    last.op \in {"record", "directive"} =>
        /\ last.line = ExpectedJoin(fs[last.file].lines, FirstLineOf(last), last.lineNum)
        /\ last.origLine = TXTFixture[1] =>
              /\ ~last.failed
              /\ last.lineNum = FirstLineOf(last) + 2
              /\ OneTXTWith(TXTOf(zone, "test.example.com."),
                            {"first part", "second part", "third part"})

\* the TXT fixture has been read: its fragments are joined without
\* separator, and the lines of other records with a space
C25_Witness ==
    /\ last.op = "record"
    /\ last.origLine = TXTFixture[1]
    /\ last.line = "test\tIN\tTXT\t( \"first part \"\"second part\"\"third part\" )"
    /\ Len(TXTOf(zone, "test.example.com.")) = 1
    /\ TXTOf(zone, "test.example.com.")[1].Text
         = "( \"first part \"\"second part\"\"third part\" )"
\* the positions of the ';' of the line that have an even number of double
\* quotes before them
CommentPoints(line) ==
    {i \in 1..Len(line) : Ch(line, i) = ";" /\ Count(SubSeq(line, 1, i - 1), "\"") % 2 = 0}

FirstOf(points) == CHOOSE i \in points : \A j \in points : i <= j

\* the split of the line at position i: trimmed content and trimmed comment
SplitAt(line, i) ==
    [cleanLine |-> TrimSpace(SubSeq(line, 1, i - 1)),
     comment |-> TrimSpace(SubSeq(line, i + 1, Len(line)))]

\* pl is the split of the line at the first of its comment points, or has
\* no comment when there is none
IsCommentSplit(pl, line, points) ==
    IF points = {} THEN pl.comment = "" /\ pl.cleanLine = line
    ELSE pl = SplitAt(line, FirstOf(points))

\* C26: parseLineWithComments splits a line at the first ';' that has an
\* even number of double quotes before it into the trimmed text before it
\* and the trimmed text after it, the comment; without such a ';' the
\* comment is empty.  A ';' inside a quoted string starts no comment: the
\* TXT value "a;b" followed by a comment keeps its ';'
C26_CommentSplit ==
    last.op = "record" =>
        /\ IsCommentSplit(parseLineWithComments(last.line), last.line,
                          CommentPoints(last.line))
        /\ last.origLine = "www\tIN\tTXT\t\"a;b\" ; note" =>
              /\ ~last.failed
              /\ Len(TXTOf(zone, "www.example.com.")) = 1
              /\ TXTOf(zone, "www.example.com.")[1].Text = "a;b"

\* the TXT record of the test of the parser, with a ';' inside its quotes
\* and a comment after them, has been stored with its ';'
C26_Witness ==
    /\ last.op = "record"
    /\ last.line = "host\tIN\tTXT\t\"text ; with semicolon\"\t; real comment"
    /\ CommentPoints(last.line) = {37}
    /\ parseLineWithComments(last.line).comment = "real comment"
    /\ Len(TXTOf(zone, "host.example.com.")) = 1
    /\ TXTOf(zone, "host.example.com.")[1].Text = "text ; with semicolon"
\* q is the name n qualified with the origin o
QualifiedAs(n, o, q) ==
    IF n = "@" THEN q = o
    ELSE IF HasSuffix(n, ".") THEN q = n
    ELSE q = n \o "." \o o

\* origins, with and without final dot
QualifyOrigins == {"", ".", "org.", "example.com.", "example.com"}

\* C27: for a dot-terminated origin o, qualifyDomainName(n, o) is o when n
\* is "@", n when n ends with '.', and n.o otherwise; the result ends with
\* '.', and the qualification of an absolute name gives the name itself
\* whatever the origin
C27_Qualification ==
    (last.op = "record" /\ last.resolved /\ HasSuffix(origin, ".")) =>
        /\ QualifiedAs(last.hostname, origin, last.qualifiedHostname)
        /\ HasSuffix(last.qualifiedHostname, ".")
        /\ \A o \in QualifyOrigins :
              qualifyDomainName(last.qualifiedHostname, o) = last.qualifiedHostname

\* after $ORIGIN example.com. a record of the absolute owner
\* ftp.example.com. has been stored under this name, and one of @ before
\* it under the origin
C27_Witness ==
    /\ last.op = "record"
    /\ last.resolved
    /\ origin = "example.com."
    /\ last.hostname = "ftp.example.com."
    /\ last.qualifiedHostname = "ftp.example.com."
    /\ FindHostRecord(zone, "example.com.") # 0
    /\ FindHostRecord(zone, "ftp.example.com.") > FindHostRecord(zone, "example.com.")
(***************************************************************************)
(* Included files                                                          *)
(*                                                                         *)
(* Parse of a top-level file with a $INCLUDE line, both files with all     *)
(* their lines determined: directives and records before the $INCLUDE      *)
(* line, in the included file and after the $INCLUDE line.                 *)
(***************************************************************************)

BeforeInclude ==
    { <<>>,
      <<"$ORIGIN main.test.", "$TTL 100">>,
      <<"$ORIGIN main.test.", "$TTL 100", "www\tIN\tA\t10.0.0.1">> }

AfterInclude ==
    { <<>>,
      <<"mail\tIN\tA\t10.0.0.3">>,
      <<"\tIN\tA\t10.0.0.2">>,
      <<"\tIN\tA\t10.0.0.2", "mail\t50\tIN\tA\t10.0.0.3">>,
      <<"\t600\tIN\tA\t10.0.0.4">> }

IncludedDirectives ==
    { <<>>,
      <<"$ORIGIN sub.test.">>,
      <<"$TTL 200">>,
      <<"; part", "$TTL 200", "$ORIGIN sub.test">> }

IncludedRecords ==
    { <<>>,
      <<"host\tIN\tA\t10.0.1.1">>,
      <<"\tIN\tA\t10.0.1.2">>,
      <<"host\tIN\tA\t10.0.1.1", "\tIN\tMX\t10 mail">>,
      <<"\t600\tIN\tA\t10.0.1.3">> }

IncludingFiles ==
    {b \o <<"$INCLUDE inc.zone">> \o a : b \in BeforeInclude, a \in AfterInclude}

IncludedFiles == {d \o r : d \in IncludedDirectives, r \in IncludedRecords}

InitInclude ==
    /\ file = MainFile
    /\ origin = ""
    /\ ttl = DefaultTTL
    /\ zone = <<>>
    /\ originFound = FALSE
    /\ metadata = [Origin |-> "", TTL |-> DefaultTTL]
    /\ stack = <<>>
    /\ fs \in {[f \in Files |-> [lines |-> IF f = MainFile THEN m ELSE i,
                                 complete |-> TRUE]] :
                  m \in IncludingFiles, i \in IncludedFiles}
    /\ status = "new"
    /\ ret = [zone |-> Nil, metadata |-> ZeroMetadata, err |-> NoError]
    /\ open = <<>>
    /\ gen = NoGen
    /\ arpa = NoArpa
    /\ last = NoLast

SpecInclude == InitInclude /\ [][Next]_vars

\* the domain of the last $ORIGIN directive processed, "" when there is none
LastOriginOf(z) ==
    IF {i \in 1..Len(z) : z[i].Type = EntryTypeOrigin} = {} THEN ""
    ELSE z[CHOOSE i \in 1..Len(z) :
               /\ z[i].Type = EntryTypeOrigin
               /\ \A j \in (i + 1)..Len(z) : z[j].Type # EntryTypeOrigin].Origin.Domain

\* C28: a $ORIGIN or $TTL directive of an included file stays in effect
\* after the include returns: at every moment the origin and the default
\* TTL of the parser are those of the last such directive processed in any
\* file, every record line is qualified with this origin and, without a
\* TTL field, given this TTL, and the metadata that Parse returns hold them
C28_DirectivesPersist ==
    /\ origin = LastOriginOf(zone)
    /\ ttl = DefaultTTLOf(zone)
    /\ (last.op = "record" /\ last.resolved) =>
          /\ last.qualifiedHostname = qualifyDomainName(last.hostname, LastOriginOf(zone))
          /\ TTLField(LastFields) = "" => last.recordTTL = DefaultTTLOf(zone)
    /\ status = "done" =>
          ret.metadata = [Origin |-> LastOriginOf(zone), TTL |-> DefaultTTLOf(zone)]

\* a record of the top-level file after the $INCLUDE line, which has its
\* own $ORIGIN main.test. and $TTL 100 before it, is stored under the
\* origin sub.test. and with the TTL 200 of the included file
C28_Witness ==
    /\ last.op = "record"
    /\ last.file = MainFile
    /\ last.depth = 1
    /\ Len(zone) >= 3
    /\ zone[1].Type = EntryTypeOrigin
    /\ zone[1].Origin.Domain = "main.test."
    /\ zone[1].SourceFile = MainFile
    /\ zone[2].Type = EntryTypeTTL
    /\ zone[2].TTL.Value = "100"
    /\ last.hostname = "mail"
    /\ last.qualifiedHostname = "mail.sub.test."
    /\ last.recordTTL = "200"
\* the line is a record line that names its owner
NamesOwner(line) ==
    /\ TrimSpace(line) # ""
    /\ ~HasPrefix(TrimSpace(line), ";")
    /\ ~HasPrefix(TrimSpace(line), "$")
    /\ ~StartsBlank(line)

RECURSIVE OwnerUpTo(_, _)
\* the owner named by the last record line among the first n lines of a
\* file, Nil when none of them names an owner
OwnerUpTo(lines, n) ==
    IF n = 0 THEN Nil
    ELSE IF NamesOwner(lines[n]) THEN <<Fields(lines[n])[1]>>
    ELSE OwnerUpTo(lines, n - 1)

\* the iteration l on a blank-owner line is fatal when no line of its file
\* before it names an owner, and else resolves to the owner that the last
\* of them names
BlankOwnerWithin(l, owner) ==
    IF owner = Nil THEN l.failed /\ status = "failed"
    ELSE ~l.failed /\ l.resolved /\ l.hostname = owner[1]

\* C29: the previous owner of blank-owner lines is local to each file
\* scan: the scan of an included file starts without owner, so that a
\* blank-owner line at its start is fatal also when the including file has
\* named a host, and a blank-owner line of the including file after the
\* $INCLUDE line resolves to the owner named before it in the including
\* file, whatever owners the included file has named
C29_OwnerPerFile ==
    /\ \A k \in 1..Len(stack) : stack[k].lineNum = 0 => stack[k].currentName = Nil
    /\ (last.op = "record" /\ StartsBlank(last.origLine)) =>
          BlankOwnerWithin(last, OwnerUpTo(fs[last.file].lines, last.lineNum - 1))

\* the included file starts with a blank-owner line that has a TTL, after
\* the including file has named www: Parse goes on with the owner 600
C29_Witness ==
    /\ last.op = "record"
    /\ last.file = IncFile
    /\ last.lineNum = 1
    /\ last.origLine = "\t600\tIN\tA\t10.0.1.3"
    /\ stack[1].currentName = <<"www">>
    /\ last.prevName = Nil
    /\ ~last.failed
    /\ last.hostname = "600"
    /\ status = "scanning"
(***************************************************************************)
(* dhcpgen at the top of the address space                                 *)
(*                                                                         *)
(* generateStatements with the loops of countValidHosts and of             *)
(* getNetworksInRange as steps, one iteration each, for ranges in the two  *)
(* highest /24 networks.  The uint32 counters ip and current wrap at 2^32. *)
(***************************************************************************)

\* the number of networks that the slice of getNetworksInRange can hold
\* before the memory of the process is exhausted
MaxSliceLen == 4

\* the modulus of the bits of count that are kept: all of its bits for a
\* count over the addresses of two networks
CountModulus == 65536

\* ip + 1 in uint32
SuccIP(ip) ==
    IF ip.oct = 255 THEN IPv4((ip.net + 1) % Networks24, 0) ELSE IPv4(ip.net, ip.oct + 1)

\* ((networkBase >> 8) + 1) << 8 in uint32
NextNetwork(current) == IPv4((current.net + 1) % Networks24, 0)

\* min(networkBase|255, endIP)
NetworkEnd(current, endIP) == MinIP(IPv4(current.net, 255), endIP)

GenTopAddresses ==
    {IPv4(Networks24 - 1 - k, o) : k \in 0..1, o \in {0, 1, 254, 255}}

GenTopArgs ==
    [startIP : GenTopAddresses, endIP : GenTopAddresses, hostStart : {0, 5},
     comments : {FALSE}, mx : {""}]

InitGenTop ==
    /\ file = MainFile
    /\ origin = ""
    /\ ttl = DefaultTTL
    /\ zone = <<>>
    /\ originFound = FALSE
    /\ metadata = [Origin |-> "", TTL |-> DefaultTTL]
    /\ stack = <<>>
    /\ fs = [f \in Files |-> [lines |-> <<>>, complete |-> FALSE]]
    /\ status = "new"
    /\ ret = [zone |-> Nil, metadata |-> ZeroMetadata, err |-> NoError]
    /\ open = <<>>
    /\ last = NoLast
    /\ arpa = NoArpa
    /\ gen \in {[pc |-> "call", width |-> 0, networks |-> <<>>, idx |-> 0,
                 statements |-> <<>>, err |-> NoError, ip |-> IPv4(0, 0), count |-> 0,
                 current |-> IPv4(0, 0), hostOffset |-> 0] @@ a : a \in GenTopArgs}

\* generateStatements up to the loop of countValidHosts
GenTopCall ==
    /\ gen.pc = "call"
    /\ gen' = IF ~LeqIP(gen.startIP, gen.endIP)
              THEN GenFail("start IP must be less than or equal to end IP")
              ELSE IF gen.hostStart < 0
              THEN GenFail("hostStart cannot be negative: " \o Sprintd(gen.hostStart))
              ELSE [gen EXCEPT !.pc = "count", !.ip = gen.startIP, !.count = 0]
    /\ UNCHANGED genIdle

\* an iteration of the loop of countValidHosts, for an address of the
\* networks of the range
CountStep ==
    /\ gen.pc = "count"
    /\ LeqIP(gen.ip, gen.endIP)
    /\ gen.ip.net >= gen.startIP.net
    /\ gen' = [gen EXCEPT
                 !.count = IF gen.ip.oct # 0 /\ gen.ip.oct # 255
                           THEN (@ + 1) % CountModulus ELSE @,
                 !.ip = SuccIP(gen.ip)]
    /\ UNCHANGED genIdle

\* the iterations of the loop of countValidHosts for the addresses of the
\* networks below those of the range, from ip to the last address before
\* the first network of the range: each of them is below endIP
CountBelow ==
    /\ gen.pc = "count"
    /\ LeqIP(gen.ip, gen.endIP)
    /\ gen.ip.net < gen.startIP.net
    /\ gen' = [gen EXCEPT
                 !.count = (@ + ValidOctets(gen.ip.oct, 255)
                              + ((gen.startIP.net - gen.ip.net - 1) % CountModulus) * 254)
                             % CountModulus,
                 !.ip = IPv4(gen.startIP.net, 0)]
    /\ UNCHANGED genIdle

\* countValidHosts returns: generateStatements up to the loop of
\* getNetworksInRange
CountExit ==
    /\ gen.pc = "count"
    /\ ~LeqIP(gen.ip, gen.endIP)
    /\ gen' = IF gen.count = 0
              THEN GenFail("no valid host addresses in range " \o IPString(gen.startIP)
                             \o " to " \o IPString(gen.endIP))
              ELSE [gen EXCEPT !.pc = "split",
                               !.width = getFieldWidth(gen.hostStart + gen.count - 1),
                               !.statements = IF gen.comments THEN <<GenHeader(gen.count)>>
                                              ELSE <<>>,
                               !.current = gen.startIP,
                               !.hostOffset = gen.hostStart]
    /\ UNCHANGED genIdle

\* an iteration of the loop of getNetworksInRange
NetStep ==
    /\ gen.pc = "split"
    /\ LeqIP(gen.current, gen.endIP)
    /\ IF ValidOctets(gen.current.oct, NetworkEnd(gen.current, gen.endIP).oct) = 0
       THEN gen' = [gen EXCEPT !.current = NextNetwork(gen.current)]
       ELSE IF Len(gen.networks) >= MaxSliceLen
       THEN gen' = [gen EXCEPT !.pc = "out of memory"]
       ELSE gen' = [gen EXCEPT
                      !.networks =
                          Append(@, [baseIP |-> IPv4(gen.current.net, 0),
                                     startOctet |-> gen.current.oct,
                                     endOctet |-> NetworkEnd(gen.current, gen.endIP).oct,
                                     hostStart |-> gen.hostOffset]),
                      !.hostOffset =
                          @ + ValidOctets(gen.current.oct,
                                          NetworkEnd(gen.current, gen.endIP).oct),
                      !.current = NextNetwork(gen.current)]
    /\ UNCHANGED genIdle

\* getNetworksInRange returns
NetExit ==
    /\ gen.pc = "split"
    /\ ~LeqIP(gen.current, gen.endIP)
    /\ gen' = [gen EXCEPT !.pc = "networks", !.idx = 1]
    /\ UNCHANGED genIdle

NextGenTop ==
    \/ GenTopCall
    \/ CountStep
    \/ CountBelow
    \/ CountExit
    \/ NetStep
    \/ NetExit
    \/ GenNetwork
    \/ GenReturn

\* the process runs until generateStatements returns or the process stops
SpecGenTop == InitGenTop /\ [][NextGenTop]_vars /\ WF_vars(NextGenTop)

\* C30: generateStatements terminates, with statements or with an error,
\* for every range with start <= end, also when the range ends in
\* 255.255.255.0/24 or at 255.255.255.255
C30_Terminates == <>(gen.pc = "done")

\* the counter of the loop of countValidHosts for a range that ends at
\* 255.255.255.255 has wrapped around to 0.0.0.0 and is back at the first
\* network of the range, and the loop goes on
C30_Witness ==
    /\ gen.pc = "count"
    /\ gen.endIP = IPv4(Networks24 - 1, 255)
    /\ gen.ip = IPv4(gen.startIP.net, 0)
    /\ gen.count > 254
====
